---- MODULE Spec2Model ----
(***************************************************************************)
(* The "Loopy" block-program simulator of looplab-classes                  *)
(* (src/src/app/loopy/page.tsx, src/src/loopy/levels.ts,                   *)
(* src/src/loopy/progress.ts): the program model, the snapping engine,     *)
(* the expansion of a block program, the runner and the progress record.   *)
(*                                                                         *)
(* Block ids are crypto.randomUUID() values in the source.  They are only  *)
(* ever compared for equality and blocks are only appended to the program  *)
(* array (never removed or reordered, except that a reset replaces the     *)
(* whole array), so a block's id is modelled by its index in the array.    *)
(***************************************************************************)
EXTENDS Integers, Sequences, FiniteSets, TLC

(* ---------------------------- bounds ----------------------------------- *)
\* largest number of blocks in the workspace (the entry marker included)
MaxBlocks == 3
\* largest number of blocks in the workspace when programs are run
MaxRunBlocks == 4
\* largest number of blocks in the workspace when stacks are rearranged
MaxStackBlocks == 4
\* largest y coordinate a block is carried to when stacks are rearranged
MaxStackY == 180
\* largest number of blocks in the workspace when a chain is built block by
\* block and run
MaxCrawlBlocks == 6
\* largest number of runner executions (async handleRunProgram calls) in flight
MaxGraphBlocks == 4
MaxPad == 4
MaxUsed == 14
MaxPar == 11
MaxStaleBlocks == 6
MaxLoadBlocks == 4
MaxNestBlocks == 4
MaxNestCopies == 3
MaxSnapBlocks == 4
MaxBusyBlocks == 3
MaxLateBlocks == 6
MaxSteps == 12
MaxPatchBlocks == 3
MaxRuns == 2

(* ----------------------- program constants ----------------------------- *)
BLOCK_HEIGHT == 40
BLOCK_SPACING == 0
SNAP_VERTICAL_DISTANCE == 15
SNAP_HORIZONTAL_TOLERANCE == 40
\* a null nextBlockId / prevBlockId
NullId == 0
\* an absent `count` property (a block that is not a REPEAT has none)
NoCount == 0
\* the heading a level without initialHeading starts with
DefaultHeading == 90
\* an absent initialHeading
NoHeading == -1

(* ----------------------------- levels ---------------------------------- *)
Pos(x, y) == [x |-> x, y |-> y]

\* row-major tile grid from rows of tiles
createGrid(width, height, tiles) ==
  [k \in 1..(width * height) |->
     tiles[((k - 1) \div width) + 1][((k - 1) % width) + 1]]

OpenGrid ==
  createGrid(5, 3, << <<"empty", "empty", "empty", "empty", "empty">>,
                      <<"start", "empty", "empty", "empty", "goal">>,
                      <<"empty", "empty", "empty", "empty", "empty">> >>)

RockGrid ==
  createGrid(5, 3, << <<"empty", "empty", "wall", "empty", "empty">>,
                      <<"start", "empty", "wall", "empty", "goal">>,
                      <<"empty", "empty", "empty", "empty", "empty">> >>)

LEVELS ==
  << [id |-> 1, width |-> 5, height |-> 3, grid |-> OpenGrid,
      start |-> Pos(0, 1), goal |-> Pos(4, 1),
      allowedBlocks |-> <<"POINT_RIGHT", "MOVE_FORWARD">>,
      optimalBlockCount |-> 5, initialHeading |-> 270],
     [id |-> 2, width |-> 5, height |-> 3, grid |-> OpenGrid,
      start |-> Pos(0, 1), goal |-> Pos(4, 1),
      allowedBlocks |-> <<"POINT_RIGHT", "MOVE_FORWARD", "REPEAT">>,
      optimalBlockCount |-> 3, initialHeading |-> 270],
     [id |-> 3, width |-> 5, height |-> 3, grid |-> RockGrid,
      start |-> Pos(0, 1), goal |-> Pos(4, 1),
      allowedBlocks |-> <<"POINT_UP", "POINT_RIGHT", "POINT_DOWN",
                          "POINT_LEFT", "MOVE_FORWARD">>,
      optimalBlockCount |-> 8, initialHeading |-> NoHeading],
     [id |-> 4, width |-> 5, height |-> 3, grid |-> RockGrid,
      start |-> Pos(0, 1), goal |-> Pos(4, 1),
      allowedBlocks |-> <<"POINT_UP", "POINT_RIGHT", "POINT_DOWN",
                          "POINT_LEFT", "REPEAT", "MOVE_FORWARD">>,
      optimalBlockCount |-> 10, initialHeading |-> NoHeading] >>

LevelIds == {LEVELS[k].id : k \in 1..Len(LEVELS)}

\* LEVELS.find(l => l.id === id) !== undefined
LevelExists(id) == id \in LevelIds

getLevelById(id) == LEVELS[CHOOSE k \in 1..Len(LEVELS) : LEVELS[k].id = id]

\* level.initialHeading ?? 90
InitialHeading(level) ==
  IF level.initialHeading = NoHeading THEN DefaultHeading ELSE level.initialHeading

(* ----------------------------- blocks ---------------------------------- *)
NoConnection == [nextBlockId |-> NullId, prevBlockId |-> NullId]

createBlockInstance(id, blockType, position) ==
  [id |-> id, type |-> blockType, position |-> position,
   connection |-> NoConnection,
   count |-> IF blockType = "REPEAT" THEN 2 ELSE NoCount,
   children |-> << >>]

\* index of the block with this id in the array, 0 when there is none
\* (blocks.find(b => b.id === id))
IndexOf(blocks, id) ==
  IF \E k \in 1..Len(blocks) : blocks[k].id = id
  THEN CHOOSE k \in 1..Len(blocks) :
         /\ blocks[k].id = id
         /\ \A j \in 1..(k - 1) : blocks[j].id # id
  ELSE 0

HasBlock(blocks, id) == IndexOf(blocks, id) # 0

BlockOf(blocks, id) == blocks[IndexOf(blocks, id)]

(* ------------------------- snapping engine ----------------------------- *)
Abs(n) == IF n < 0 THEN -n ELSE n

\* Math.hypot(dx, dy) is only ever compared with another Math.hypot, and only
\* for a candidate in snap range: |dx| <= SNAP_HORIZONTAL_TOLERANCE (40) and
\* |dy| <= SNAP_VERTICAL_DISTANCE (15), integers.  The double it returns is
\* the correctly rounded square root of dx*dx + dy*dy, or a double one or two
\* units in the last place away from it: the engine divides by the larger
\* argument, sums the squares with a compensated sum, takes the root and
\* multiplies back.  The three tables list the (|dx|, |dy|) of the range whose
\* result is one ulp below, one ulp above and two ulps above the rounded root.
HypotOneBelow ==
  {<<1, 6>>, <<1, 12>>, <<2, 11>>, <<2, 12>>, <<2, 13>>, <<2, 15>>, <<3, 5>>,
   <<3, 14>>, <<5, 3>>, <<5, 11>>, <<6, 1>>, <<6, 10>>, <<6, 13>>, <<10, 6>>,
   <<10, 11>>, <<10, 13>>, <<11, 2>>, <<11, 5>>, <<11, 10>>, <<11, 14>>,
   <<11, 15>>, <<12, 1>>, <<12, 2>>, <<13, 2>>, <<13, 6>>, <<13, 10>>,
   <<14, 3>>, <<14, 11>>, <<15, 2>>, <<15, 11>>, <<17, 10>>, <<17, 15>>,
   <<18, 3>>, <<18, 13>>, <<19, 8>>, <<19, 14>>, <<20, 12>>, <<21, 1>>,
   <<21, 2>>, <<21, 8>>, <<21, 10>>, <<22, 4>>, <<22, 5>>, <<22, 10>>,
   <<22, 15>>, <<23, 6>>, <<23, 10>>, <<24, 2>>, <<24, 4>>, <<24, 9>>,
   <<24, 13>>, <<25, 9>>, <<25, 15>>, <<26, 1>>, <<26, 4>>, <<26, 12>>,
   <<26, 15>>, <<27, 10>>, <<27, 14>>, <<28, 1>>, <<28, 6>>, <<28, 11>>,
   <<29, 2>>, <<29, 3>>, <<29, 4>>, <<29, 6>>, <<29, 7>>, <<29, 13>>,
   <<30, 4>>, <<30, 5>>, <<31, 1>>, <<31, 4>>, <<31, 5>>, <<31, 7>>,
   <<31, 14>>, <<33, 2>>, <<33, 9>>, <<33, 15>>, <<35, 9>>, <<36, 6>>,
   <<37, 2>>, <<37, 7>>, <<37, 8>>, <<39, 5>>, <<39, 6>>, <<39, 11>>,
   <<40, 11>>}

HypotOneAbove ==
  {<<1, 5>>, <<1, 14>>, <<1, 15>>, <<2, 3>>, <<2, 5>>, <<2, 7>>, <<2, 9>>,
   <<2, 10>>, <<3, 2>>, <<3, 3>>, <<4, 6>>, <<4, 10>>, <<4, 14>>, <<5, 1>>,
   <<5, 2>>, <<5, 15>>, <<6, 4>>, <<6, 6>>, <<6, 15>>, <<7, 2>>, <<7, 12>>,
   <<8, 12>>, <<8, 13>>, <<9, 2>>, <<9, 9>>, <<9, 10>>, <<9, 11>>, <<10, 2>>,
   <<10, 4>>, <<10, 9>>, <<11, 9>>, <<11, 11>>, <<12, 7>>, <<12, 8>>,
   <<12, 12>>, <<13, 8>>, <<13, 13>>, <<14, 1>>, <<14, 4>>, <<15, 1>>,
   <<15, 5>>, <<15, 6>>, <<17, 5>>, <<17, 6>>, <<17, 7>>, <<17, 14>>,
   <<18, 4>>, <<18, 15>>, <<19, 3>>, <<19, 15>>, <<20, 4>>, <<20, 8>>,
   <<21, 4>>, <<21, 7>>, <<23, 2>>, <<23, 12>>, <<24, 11>>, <<24, 14>>,
   <<25, 1>>, <<25, 10>>, <<25, 14>>, <<26, 11>>, <<27, 6>>, <<28, 2>>,
   <<28, 5>>, <<28, 8>>, <<28, 9>>, <<29, 5>>, <<29, 10>>, <<30, 2>>,
   <<30, 7>>, <<30, 10>>, <<30, 12>>, <<30, 15>>, <<31, 3>>, <<31, 6>>,
   <<31, 10>>, <<31, 11>>, <<31, 13>>, <<31, 15>>, <<33, 7>>, <<34, 5>>,
   <<34, 10>>, <<34, 12>>, <<34, 14>>, <<35, 8>>, <<35, 11>>, <<35, 14>>,
   <<36, 8>>, <<37, 1>>, <<37, 12>>, <<38, 6>>, <<38, 9>>, <<38, 11>>,
   <<39, 2>>, <<39, 8>>, <<39, 10>>, <<39, 12>>, <<39, 14>>, <<40, 1>>,
   <<40, 8>>}

HypotTwoAbove ==
  {<<5, 6>>, <<6, 5>>, <<10, 12>>, <<12, 10>>}

\* units in the last place between Math.hypot(dx, dy) and the rounded root
HypotUlps(dx, dy) ==
  LET p == << Abs(dx), Abs(dy) >>
  IN IF p \in HypotOneBelow THEN -1
     ELSE IF p \in HypotOneAbove THEN 1
     ELSE IF p \in HypotTwoAbove THEN 2
     ELSE 0

\* Math.hypot(dx, dy) as an integer that orders as the doubles do: four times
\* the sum of the squares (doubles of different sums differ by far more than
\* two ulps on this range) plus the ulps
MathHypot(dx, dy) == 4 * (dx * dx + dy * dy) + HypotUlps(dx, dy)

\* the while loop of findSnapTarget: following nextBlockId from the block
\* `curId`, is `draggedId` met?  `fuel` bounds the walk; the loop of the source
\* does not end on a next-cycle that avoids draggedId (NextAcyclic rules it out)
RECURSIVE NextChainReaches(_, _, _, _)
NextChainReaches(blocks, curId, draggedId, fuel) ==
  IF ~HasBlock(blocks, curId) THEN FALSE
  ELSE LET n == BlockOf(blocks, curId).connection.nextBlockId IN
       IF n = NullId THEN FALSE
       ELSE IF n = draggedId THEN TRUE
       ELSE IF fuel = 0 THEN FALSE
       ELSE NextChainReaches(blocks, n, draggedId, fuel - 1)

\* the candidate passes the two `continue` tests and the distance test
Eligible(blocks, k, draggedId, draggedPosition) ==
  LET candidate == blocks[k]
      dx == draggedPosition.x - candidate.position.x
      dy == draggedPosition.y - (candidate.position.y + BLOCK_HEIGHT)
  IN /\ candidate.id # draggedId
     /\ ~NextChainReaches(blocks, candidate.id, draggedId, Len(blocks))
     /\ Abs(dy) <= SNAP_VERTICAL_DISTANCE
     /\ Abs(dx) <= SNAP_HORIZONTAL_TOLERANCE

CandidateDistance(blocks, k, draggedPosition) ==
  MathHypot(draggedPosition.x - blocks[k].position.x,
          draggedPosition.y - (blocks[k].position.y + BLOCK_HEIGHT))

\* the loop of findSnapTarget with <= for <: of the candidates at the least
\* distance the last of the array is kept
RECURSIVE SnapScanLastWins(_, _, _, _, _)
SnapScanLastWins(blocks, draggedId, draggedPosition, k, best) ==
  IF k > Len(blocks) THEN best
  ELSE IF /\ Eligible(blocks, k, draggedId, draggedPosition)
          /\ \/ best = 0
             \/ CandidateDistance(blocks, k, draggedPosition)
                  <= CandidateDistance(blocks, best, draggedPosition)
       THEN SnapScanLastWins(blocks, draggedId, draggedPosition, k + 1, k)
       ELSE SnapScanLastWins(blocks, draggedId, draggedPosition, k + 1, best)

\* the for loop of findSnapTarget from index k on; `best` is the index of
\* bestTarget so far (0 for null, whose bestDistance is Infinity)
RECURSIVE SnapScan(_, _, _, _, _)
SnapScan(blocks, draggedId, draggedPosition, k, best) ==
  IF k > Len(blocks) THEN best
  ELSE IF /\ Eligible(blocks, k, draggedId, draggedPosition)
          /\ \/ best = 0
             \/ CandidateDistance(blocks, k, draggedPosition)
                  < CandidateDistance(blocks, best, draggedPosition)
       THEN SnapScan(blocks, draggedId, draggedPosition, k + 1, k)
       ELSE SnapScan(blocks, draggedId, draggedPosition, k + 1, best)

\* index of the best snap target in the array, 0 for null
findSnapTarget(blocks, draggedId, draggedPosition) ==
  SnapScan(blocks, draggedId, draggedPosition, 1, 0)

\* children.filter(child => child.id !== movedId)
FilterChildren(children, movedId) ==
  SelectSeq(children, LAMBDA child : child.id # movedId)

\* one element of the `clean` map of applySnapping (its returns are exclusive:
\* the first test that matches decides)
CleanBlock(b, movedId) ==
  IF b.connection.nextBlockId = movedId
  THEN [b EXCEPT !.connection.nextBlockId = NullId]
  ELSE IF b.connection.prevBlockId = movedId
  THEN [b EXCEPT !.connection.prevBlockId = NullId]
  ELSE IF /\ b.type = "REPEAT"
          /\ Len(FilterChildren(b.children, movedId)) # Len(b.children)
  THEN [b EXCEPT !.children = FilterChildren(b.children, movedId)]
  ELSE IF b.id = movedId
  THEN [b EXCEPT !.connection = NoConnection]
  ELSE b

ClearConnections(blocks, movedId) ==
  [k \in 1..Len(blocks) |-> CleanBlock(blocks[k], movedId)]

\* findParentRepeatBlock: id of the first REPEAT met walking prevBlockId up
\* from `block`, NullId for null
RECURSIVE findParentRepeatBlock(_, _, _)
findParentRepeatBlock(blocks, block, fuel) ==
  IF block.connection.prevBlockId = NullId THEN NullId
  ELSE IF ~HasBlock(blocks, block.connection.prevBlockId) THEN NullId
  ELSE LET parent == BlockOf(blocks, block.connection.prevBlockId) IN
       IF parent.type = "REPEAT" THEN parent.id
       ELSE IF fuel = 0 THEN NullId
       ELSE findParentRepeatBlock(blocks, parent, fuel - 1)

HasChild(children, id) == \E j \in 1..Len(children) : children[j].id = id

\* the element `moved` put into a REPEAT's children array.  It is the block
\* object as it was when it was attached; of such an element the source only
\* ever reads id, type, count and children (its position and connection are
\* never read: the nested DraggableBlock overrides the position), so these
\* are the fields kept.
ChildCopy(moved) ==
  [id |-> moved.id, type |-> moved.type, count |-> moved.count,
   children |-> moved.children]

\* the two "add to a REPEAT's children" maps: the moved block is put under
\* bestTarget and a copy of `moved` is appended to the children of `repeatId`
AttachAsChild(blocks, movedId, moved, target, repeatId) ==
  [k \in 1..Len(blocks) |->
     LET b == blocks[k] IN
     IF b.id = movedId
     THEN [b EXCEPT !.position = Pos(target.position.x,
                                     target.position.y + BLOCK_HEIGHT + BLOCK_SPACING),
                    !.connection = [prevBlockId |-> target.id,
                                    nextBlockId |-> NullId]]
     ELSE IF b.id = repeatId
             /\ ~HasChild(IF b.type = "REPEAT" THEN b.children ELSE << >>, movedId)
     THEN [b EXCEPT !.children =
             Append(IF b.type = "REPEAT" THEN b.children ELSE << >>,
                    ChildCopy(moved))]
     ELSE b]

\* InsertBelow with the moved block's nextBlockId set to bestTarget's id
\* instead of bestTarget's former next
InsertBelowBackLink(blocks, movedId, target) ==
  [k \in 1..Len(blocks) |->
     LET b == blocks[k] IN
     IF b.id = movedId
     THEN [b EXCEPT !.position = Pos(target.position.x,
                                     target.position.y + BLOCK_HEIGHT + BLOCK_SPACING),
                    !.connection = [prevBlockId |-> target.id,
                                    nextBlockId |-> target.id]]
     ELSE IF b.id = target.id
     THEN [b EXCEPT !.connection.nextBlockId = movedId]
     ELSE b]

\* the insertion map: the moved block goes between bestTarget and its next
InsertBelow(blocks, movedId, target) ==
  LET existingNextId == target.connection.nextBlockId IN
  [k \in 1..Len(blocks) |->
     LET b == blocks[k] IN
     IF b.id = movedId
     THEN [b EXCEPT !.position = Pos(target.position.x,
                                     target.position.y + BLOCK_HEIGHT + BLOCK_SPACING),
                    !.connection = [prevBlockId |-> target.id,
                                    nextBlockId |-> existingNextId]]
     ELSE IF b.id = target.id
     THEN [b EXCEPT !.connection.nextBlockId = movedId]
     ELSE IF existingNextId # NullId /\ b.id = existingNextId
     THEN [b EXCEPT !.connection.prevBlockId = movedId]
     ELSE b]

SetPosition(blocks, movedId, position) ==
  [k \in 1..Len(blocks) |->
     IF blocks[k].id = movedId THEN [blocks[k] EXCEPT !.position = position]
     ELSE blocks[k]]

\* applySnapping whose WHEN_RUN_CLICKED branch runs the clearing pass before
\* it sets the position
applySnappingEntryClears(blocks, movedId, draggedPosition) ==
  IF ~HasBlock(blocks, movedId) THEN blocks
  ELSE
  LET moved == BlockOf(blocks, movedId) IN
  IF moved.type = "WHEN_RUN_CLICKED"
  THEN SetPosition(ClearConnections(blocks, movedId), movedId, draggedPosition)
  ELSE
  LET updatedBlocks == ClearConnections(blocks, movedId)
      best == findSnapTarget(updatedBlocks, movedId, draggedPosition)
  IN
  IF best = 0 THEN SetPosition(updatedBlocks, movedId, draggedPosition)
  ELSE
  LET bestTarget == updatedBlocks[best]
      parentRepeat == findParentRepeatBlock(updatedBlocks, bestTarget,
                                            Len(updatedBlocks))
  IN
  IF bestTarget.type = "REPEAT"
  THEN AttachAsChild(updatedBlocks, movedId, moved, bestTarget, bestTarget.id)
  ELSE IF parentRepeat # NullId
  THEN AttachAsChild(updatedBlocks, movedId, moved, bestTarget, parentRepeat)
  ELSE InsertBelow(updatedBlocks, movedId, bestTarget)

\* applySnapping without its WHEN_RUN_CLICKED branch: the entry marker snaps
\* like any other block
applySnappingEntrySnaps(blocks, movedId, draggedPosition) ==
  IF ~HasBlock(blocks, movedId) THEN blocks
  ELSE
  LET moved == BlockOf(blocks, movedId)
      updatedBlocks == ClearConnections(blocks, movedId)
      best == findSnapTarget(updatedBlocks, movedId, draggedPosition)
  IN
  IF best = 0 THEN SetPosition(updatedBlocks, movedId, draggedPosition)
  ELSE
  LET bestTarget == updatedBlocks[best]
      parentRepeat == findParentRepeatBlock(updatedBlocks, bestTarget,
                                            Len(updatedBlocks))
  IN
  IF bestTarget.type = "REPEAT"
  THEN AttachAsChild(updatedBlocks, movedId, moved, bestTarget, bestTarget.id)
  ELSE IF parentRepeat # NullId
  THEN AttachAsChild(updatedBlocks, movedId, moved, bestTarget, parentRepeat)
  ELSE InsertBelow(updatedBlocks, movedId, bestTarget)

applySnapping(blocks, movedId, draggedPosition) ==
  IF ~HasBlock(blocks, movedId) THEN blocks
  ELSE
  LET moved == BlockOf(blocks, movedId) IN
  IF moved.type = "WHEN_RUN_CLICKED"
  THEN SetPosition(blocks, movedId, draggedPosition)
  ELSE
  LET updatedBlocks == ClearConnections(blocks, movedId)
      best == findSnapTarget(updatedBlocks, movedId, draggedPosition)
  IN
  IF best = 0 THEN SetPosition(updatedBlocks, movedId, draggedPosition)
  ELSE
  LET bestTarget == updatedBlocks[best]
      parentRepeat == findParentRepeatBlock(updatedBlocks, bestTarget,
                                            Len(updatedBlocks))
  IN
  IF bestTarget.type = "REPEAT"
  THEN AttachAsChild(updatedBlocks, movedId, moved, bestTarget, bestTarget.id)
  ELSE IF parentRepeat # NullId
  THEN AttachAsChild(updatedBlocks, movedId, moved, bestTarget, parentRepeat)
  ELSE InsertBelow(updatedBlocks, movedId, bestTarget)

(* ----------------------- expansion and world rules --------------------- *)
\* `times` copies of the sequence s, one after the other
\* Repeated making one copy fewer
RepeatedOneLess(s, times) ==
  [i \in 1..(Len(s) * (IF times > 1 THEN times - 1 ELSE 0)) |->
     s[((i - 1) % Len(s)) + 1]]

RECURSIVE Repeated(_, _)
Repeated(s, times) == IF times <= 0 THEN << >> ELSE s \o Repeated(s, times - 1)

RECURSIVE expandProgram(_)
expandProgram(blocks) ==
  IF Len(blocks) = 0 THEN << >>
  ELSE LET b == Head(blocks) IN
       (IF b.type = "REPEAT"
        THEN Repeated(expandProgram(b.children), b.count)
        ELSE << b.type >>) \o expandProgram(Tail(blocks))

headingToDelta(h) ==
  CASE h = 0 -> [dx |-> 0, dy |-> -1]
    [] h = 90 -> [dx |-> 1, dy |-> 0]
    [] h = 180 -> [dx |-> 0, dy |-> 1]
    [] h = 270 -> [dx |-> -1, dy |-> 0]
    [] OTHER -> [dx |-> 0, dy |-> 0]

\* getHeadingFromBlockType with POINT_RIGHT read as the heading of POINT_LEFT
getHeadingFromBlockTypeRightIsLeft(blockType) ==
  CASE blockType = "POINT_UP" -> 0
    [] blockType = "POINT_RIGHT" -> 270
    [] blockType = "POINT_DOWN" -> 180
    [] blockType = "POINT_LEFT" -> 270
    [] OTHER -> NoHeading

\* the heading of a POINT_* block type, NoHeading for null
getHeadingFromBlockType(blockType) ==
  CASE blockType = "POINT_UP" -> 0
    [] blockType = "POINT_RIGHT" -> 90
    [] blockType = "POINT_DOWN" -> 180
    [] blockType = "POINT_LEFT" -> 270
    [] OTHER -> NoHeading

applyMoveForward(pos, h) ==
  Pos(pos.x + headingToDelta(h).dx, pos.y + headingToDelta(h).dy)

applyMove(pos, move) ==
  CASE move = "MOVE_UP" -> Pos(pos.x, pos.y - 1)
    [] move = "MOVE_DOWN" -> Pos(pos.x, pos.y + 1)
    [] move = "MOVE_LEFT" -> Pos(pos.x - 1, pos.y)
    [] move = "MOVE_RIGHT" -> Pos(pos.x + 1, pos.y)
    [] OTHER -> pos

\* isOutOfBounds without the test against the bottom edge
isOutOfBoundsNoBottom(pos, level) ==
  pos.x < 0 \/ pos.x >= level.width \/ pos.y < 0

isOutOfBounds(pos, level) ==
  pos.x < 0 \/ pos.x >= level.width \/ pos.y < 0 \/ pos.y >= level.height

\* level.grid[pos.y * level.width + pos.x] === "wall" (an index outside the
\* array reads undefined, which is not "wall")
isWall(pos, level) ==
  LET index == pos.y * level.width + pos.x IN
  /\ index + 1 \in DOMAIN level.grid
  /\ level.grid[index + 1] = "wall"

\* calculateStars with strict comparisons
calculateStarsStrict(blockCount, optimalCount) ==
  IF blockCount < optimalCount THEN 3
  ELSE IF blockCount < optimalCount + 2 THEN 2
  ELSE 1

calculateStars(blockCount, optimalCount) ==
  IF blockCount <= optimalCount THEN 3
  ELSE IF blockCount <= optimalCount + 2 THEN 2
  ELSE 1

(* ------------------------------ progress ------------------------------- *)
NoStars == [l \in LevelIds |-> 0]

\* { unlockedLevels: [1], bestStars: {} }: no currentLevel property (0)
DefaultProgress ==
  [unlockedLevels |-> <<1>>, bestStars |-> NoStars, currentLevel |-> 0]

Includes(seq, v) == \E k \in 1..Len(seq) : seq[k] = v

\* A stored item is the record JSON.parse makes of it when it is the JSON of
\* a Progress, and [raw |-> text] otherwise: "" (an empty item, falsy),
\* "{bad" (not JSON: JSON.parse throws), "null" and "{}" (JSON without
\* unlockedLevels: reading parsed.unlockedLevels.includes throws).
IsProgressJson(item) == "unlockedLevels" \in DOMAIN item

\* the try block of loadProgress on the stored item (`stored` is << >> when
\* the key is absent): whether it threw, and the value it returned (the
\* default record when it was left without a return)
loadProgressTry(stored) ==
  IF Len(stored) = 0 THEN [threw |-> FALSE, value |-> DefaultProgress]
  ELSE IF ~IsProgressJson(stored[1])
  THEN [threw |-> stored[1].raw # "", value |-> DefaultProgress]
  ELSE LET parsed == stored[1] IN
       [threw |-> FALSE,
        value |-> IF Includes(parsed.unlockedLevels, 1) THEN parsed
                  ELSE [parsed EXCEPT
                          !.unlockedLevels = Append(parsed.unlockedLevels, 1)]]

\* loadProgress returning what the try block had built when it threw
loadProgressNoFallback(stored) ==
  IF loadProgressTry(stored).threw
  THEN [unlockedLevels |-> << >>, bestStars |-> NoStars, currentLevel |-> 0]
  ELSE loadProgressTry(stored).value

\* loadProgress: the catch block swallows the error and the function ends in
\* its last line, the default record
loadProgress(stored) ==
  IF loadProgressTry(stored).threw THEN DefaultProgress
  ELSE loadProgressTry(stored).value

(* ------------------------------- state --------------------------------- *)
VARIABLES
  program,         \* the Block[] of the workspace
  loopyPos,        \* the actor's position on the board
  heading,         \* the actor's heading
  runStatus,       \* "idle" | "running" | "success" | "crash"
  currentLevelId,  \* the level being played
  progress,        \* the Progress record of the page
  storage,         \* the localStorage item: << >> or << a Progress >>
  runs,            \* the handleRunProgram calls suspended in a sleep
  lastOp           \* the handler that ran last, and how it ended

vars == << program, loopyPos, heading, runStatus, currentLevelId, progress,
           storage, runs, lastOp >>

\* where the drag subsystem can report a drop (workspace coordinates)
DropSet == {Pos(20, 60), Pos(20, 100), Pos(20, 140)}

\* the drops used when programs are built to be run: under a block at
\* (20, 20) and under a block at (20, 60)
RunDropSet == {Pos(20, 60), Pos(20, 100)}

\* the values typed into a REPEAT block's count input (1..99 in the source)
CountChoices == {1, 4}
RunCountChoices == {4, 5}

\* what localStorage may hold when the page is opened: nothing, or the record
\* an earlier session left after level 1 was solved
InitialStorage ==
  { << >>,
    << [unlockedLevels |-> <<1, 2>>,
        bestStars |-> [NoStars EXCEPT ![1] = 3],
        currentLevel |-> 2] >> }

\* result: "done" when the handler acted, "ignored" when it returned at a
\* guard; for a step of the runner "more" (the loop goes on), "crash" (a wall
\* or the edge of the grid) or "end" (the sequence is exhausted)
Op(op, id, result) == [op |-> op, id |-> id, result |-> result]

initializeWorkspace ==
  << createBlockInstance(1, "WHEN_RUN_CLICKED", Pos(20, 20)) >>

\* the id given to the next block created (a fresh UUID in the source)
FreshId == Len(program) + 1

\* the mount effects: load the progress, pick the level, initialize the
\* workspace, store the current level
Init ==
  \E stored \in InitialStorage :
    LET loaded == loadProgress(stored)
        lvl == IF loaded.currentLevel # 0
                  /\ Includes(loaded.unlockedLevels, loaded.currentLevel)
               THEN loaded.currentLevel
               ELSE IF Len(loaded.unlockedLevels) > 0
               THEN loaded.unlockedLevels[1]
               ELSE 1
    IN /\ currentLevelId = lvl
       /\ progress = [loaded EXCEPT !.currentLevel = lvl]
       /\ storage = << [loaded EXCEPT !.currentLevel = lvl] >>
       /\ program = initializeWorkspace
       /\ loopyPos = getLevelById(lvl).start
       /\ heading = InitialHeading(getLevelById(lvl))
       /\ runStatus = "idle"
       /\ runs = << >>
       /\ lastOp = Op("mount", NullId, "done")

(* ---------------------------- rendering -------------------------------- *)
\* ids of the blocks drawn inside a REPEAT from its children copies
RECURSIVE NestedIds(_)
NestedIds(children) ==
  IF Len(children) = 0 THEN {}
  ELSE LET c == Head(children) IN
       {c.id} \cup (IF c.type = "REPEAT" THEN NestedIds(c.children) ELSE {})
              \cup NestedIds(Tail(children))

isNestedInRepeat(blocks, id) ==
  \E k \in 1..Len(blocks) :
    blocks[k].type = "REPEAT" /\ HasChild(blocks[k].children, id)

\* ids of the blocks the workspace draws as a DraggableBlock
RenderedIds(blocks) ==
  LET top == {k \in 1..Len(blocks) : ~isNestedInRepeat(blocks, blocks[k].id)} IN
  {blocks[k].id : k \in top}
    \cup UNION {IF blocks[k].type = "REPEAT" THEN NestedIds(blocks[k].children)
                ELSE {} : k \in top}

\* ids of the drawn blocks that show a count input
RenderedRepeatIds(blocks) ==
  {id \in RenderedIds(blocks) : BlockOf(blocks, id).type = "REPEAT"}

\* WorkspacePanel's highlightedBlockId while the drawn block activeDragId is
\* dragged and the pointer is at checkPosition: the id of the snap target
\* found in the program as it is (nothing is cleared during a drag), NullId
\* for null
highlightedBlockId(activeDragId, checkPosition) ==
  IF ~HasBlock(program, activeDragId) THEN NullId
  ELSE LET target == findSnapTarget(program, activeDragId, checkPosition) IN
       IF target = 0 THEN NullId ELSE program[target].id

(* --------------------------- editing gestures -------------------------- *)
RunFrame == UNCHANGED << loopyPos, heading, runStatus, currentLevelId,
                         progress, storage, runs >>

\* a click on a palette block: PaletteBlock.handleClick, handleAddBlock
HandleAddBlock(blockType) ==
  /\ IF runStatus = "running"
     THEN /\ program' = program
          /\ lastOp' = Op("add", NullId, "ignored")
     ELSE /\ program' = Append(program,
                          createBlockInstance(FreshId, blockType, Pos(40, 40)))
          /\ lastOp' = Op("add", FreshId, "done")
  /\ RunFrame

Max0(n) == IF n < 0 THEN 0 ELSE n

\* handleDragEnd, a palette block dropped on the workspace
HandlePaletteDrop(blockType, drop) ==
  /\ LET at == Pos(Max0(drop.x), Max0(drop.y))
         newBlock == createBlockInstance(FreshId, blockType, at)
     IN program' = applySnapping(Append(program, newBlock), newBlock.id, at)
  /\ lastOp' = Op("drop", FreshId, "done")
  /\ RunFrame

\* getStackBlocks: ids of the block and of the blocks after it on its next chain
RECURSIVE getStackBlocks(_, _, _)
getStackBlocks(blocks, id, fuel) ==
  IF ~HasBlock(blocks, id) THEN {}
  ELSE LET n == BlockOf(blocks, id).connection.nextBlockId IN
       IF n = NullId \/ fuel = 0 THEN {id}
       ELSE {id} \cup getStackBlocks(blocks, n, fuel - 1)

\* the first map of the workspace branch of handleDragEnd
TranslateStack(blocks, stackIds, offsetX, offsetY) ==
  [k \in 1..Len(blocks) |->
     IF blocks[k].id \in stackIds
     THEN [blocks[k] EXCEPT !.position = Pos(@.x + offsetX, @.y + offsetY)]
     ELSE blocks[k]]

\* the program after the workspace branch of handleDragEnd
RelocateBlock(blocks, id, drop) ==
  LET draggedBlock == BlockOf(blocks, id)
      stackIds == getStackBlocks(blocks, id, Len(blocks))
      updated == TranslateStack(blocks, stackIds,
                                drop.x - draggedBlock.position.x,
                                drop.y - draggedBlock.position.y)
  IN applySnapping(updated, id, drop)

\* handleDragEnd, a workspace block dropped
HandleRelocate(id, drop) ==
  /\ id \in RenderedIds(program)
  /\ program' = RelocateBlock(program, id, drop)
  /\ lastOp' = Op("relocate", id, "done")
  /\ RunFrame

\* the map of handleUpdateBlock for updates = { count }
UpdateCount(blocks, id, count) ==
  [k \in 1..Len(blocks) |->
     IF blocks[k].id = id THEN [blocks[k] EXCEPT !.count = count]
     ELSE blocks[k]]

\* a count typed into a drawn REPEAT block: handleRepeatCountChange,
\* handleUpdateBlock
HandleUpdateBlock(id, count) ==
  /\ id \in RenderedRepeatIds(program)
  /\ IF runStatus = "running"
     THEN /\ program' = program
          /\ lastOp' = Op("update", id, "ignored")
     ELSE /\ program' = UpdateCount(program, id, count)
          /\ lastOp' = Op("update", id, "done")
  /\ RunFrame

(* ------------------------- resets and levels --------------------------- *)
\* handleReset without the test of runStatus in its first line
HandleResetUnguarded ==
  /\ program' = initializeWorkspace
  /\ loopyPos' = getLevelById(currentLevelId).start
  /\ heading' = InitialHeading(getLevelById(currentLevelId))
  /\ runStatus' = "idle"
  /\ lastOp' = Op("reset", NullId, "done")
  /\ UNCHANGED << currentLevelId, progress, storage, runs >>

\* handleReset (the workspace Reset button)
HandleReset ==
  IF runStatus = "running"
  THEN /\ lastOp' = Op("reset", NullId, "ignored")
       /\ UNCHANGED << program, loopyPos, heading, runStatus, currentLevelId,
                       progress, storage, runs >>
  ELSE /\ program' = initializeWorkspace
       /\ loopyPos' = getLevelById(currentLevelId).start
       /\ heading' = InitialHeading(getLevelById(currentLevelId))
       /\ runStatus' = "idle"
       /\ lastOp' = Op("reset", NullId, "done")
       /\ UNCHANGED << currentLevelId, progress, storage, runs >>

\* The field `arr` of a suspended execution names the array object that the
\* unlockedLevels of its captured progress record is: 0 is the array of the
\* progress record the page holds now, n > 0 an array the page has dropped.
\* Executions with the same `arr` hold the same array: every copy of a
\* progress record ({ ...progress } in handleRunProgram, { ...prevProgress }
\* in the save effect) keeps the array of the record it copies.
\* ArrDropped: the page took a new array (the literal of handleResetGame);
\* the executions that held the page's array go on holding the old one.
FreshArr(held) ==
  CHOOSE n \in 1..(Len(held) + 1) :
    /\ \A j \in 1..Len(held) : held[j].arr # n
    /\ \A m \in 1..(n - 1) : \E j \in 1..Len(held) : held[j].arr = m

ArrDropped(held) ==
  [j \in 1..Len(held) |->
     IF held[j].arr = 0 THEN [held[j] EXCEPT !.arr = FreshArr(held)]
     ELSE held[j]]

\* handleResetGame (the Reset Game button, never disabled) and the effects of
\* the level change it may cause; the suspended runs go on, holding the
\* progress record (and its unlockedLevels array) they captured
HandleResetGame ==
  LET defaultProgress == [DefaultProgress EXCEPT !.currentLevel = 1] IN
  /\ progress' = defaultProgress
  /\ storage' = << defaultProgress >>
  /\ currentLevelId' = 1
  /\ program' = initializeWorkspace
  /\ loopyPos' = getLevelById(1).start
  /\ runStatus' = "idle"
  /\ heading' = InitialHeading(getLevelById(1))
  /\ lastOp' = Op("resetGame", NullId, "done")
  /\ runs' = ArrDropped(runs)

\* setCurrentLevelId(id) followed by the two effects that depend on
\* currentLevelId; nothing happens when the id is the current one
SetCurrentLevel(id) ==
  IF id = currentLevelId
  THEN UNCHANGED << program, loopyPos, heading, runStatus, currentLevelId,
                    progress, storage >>
  ELSE /\ currentLevelId' = id
       /\ program' = initializeWorkspace
       /\ loopyPos' = getLevelById(id).start
       /\ heading' = InitialHeading(getLevelById(id))
       /\ runStatus' = "idle"
       /\ progress' = [progress EXCEPT !.currentLevel = id]
       /\ storage' = << [progress EXCEPT !.currentLevel = id] >>

\* a click on an enabled level button
HandleSelectLevel(id) ==
  /\ Includes(progress.unlockedLevels, id)
  /\ runStatus # "running"
  /\ SetCurrentLevel(id)
  /\ lastOp' = Op("selectLevel", id, "done")
  /\ UNCHANGED runs

(* ------------------------------- runner -------------------------------- *)
\* index of the first WHEN_RUN_CLICKED block, 0 when there is none
WhenRunClickedIndex(blocks) ==
  IF \E k \in 1..Len(blocks) : blocks[k].type = "WHEN_RUN_CLICKED"
  THEN CHOOSE k \in 1..Len(blocks) :
         /\ blocks[k].type = "WHEN_RUN_CLICKED"
         /\ \A j \in 1..(k - 1) : blocks[j].type # "WHEN_RUN_CLICKED"
  ELSE 0

\* a walk that marks the next id as visited instead of the current one
RECURSIVE CollectChainMarksNext(_, _, _)
CollectChainMarksNext(blocks, curId, visited) ==
  IF curId = NullId \/ ~HasBlock(blocks, curId) \/ curId \in visited THEN << >>
  ELSE << BlockOf(blocks, curId) >>
         \o CollectChainMarksNext(blocks,
              BlockOf(blocks, curId).connection.nextBlockId,
              visited \cup {BlockOf(blocks, curId).connection.nextBlockId})

\* the while loop of handleRunProgram that fills attachedBlocks
RECURSIVE CollectChain(_, _, _)
CollectChain(blocks, curId, visited) ==
  IF curId = NullId \/ ~HasBlock(blocks, curId) \/ curId \in visited THEN << >>
  ELSE << BlockOf(blocks, curId) >>
         \o CollectChain(blocks, BlockOf(blocks, curId).connection.nextBlockId,
                         visited \cup {curId})

\* attachedBlocks with the walk started at the WHEN_RUN_CLICKED block itself
attachedBlocksFromEntry(blocks) ==
  IF WhenRunClickedIndex(blocks) = 0 THEN << >>
  ELSE CollectChain(blocks, blocks[WhenRunClickedIndex(blocks)].id, {})

attachedBlocks(blocks) ==
  IF WhenRunClickedIndex(blocks) = 0 THEN << >>
  ELSE CollectChain(blocks,
         blocks[WhenRunClickedIndex(blocks)].connection.nextBlockId, {})

RemoveAt(seq, k) == SubSeq(seq, 1, k - 1) \o SubSeq(seq, k + 1, Len(seq))

\* ProgressAfterSuccess without the look-up of the next level in LEVELS
ProgressAfterSuccessAlwaysUnlocks(captured, level, used) ==
  LET stars == calculateStars(used, level.optimalBlockCount)
      currentBest == captured.bestStars[level.id]
  IN IF stars > currentBest
     THEN [captured EXCEPT
             !.bestStars[level.id] = stars,
             !.unlockedLevels =
                IF ~Includes(@, level.id + 1)
                THEN Append(@, level.id + 1) ELSE @]
     ELSE captured

\* the progress record a successful run writes, from the progress it captured:
\* newProgress.  Its unlockedLevels is the captured record's own array, so
\* the push is also read by every execution holding that array (SharePush)
ProgressAfterSuccess(captured, level, used) ==
  LET stars == calculateStars(used, level.optimalBlockCount)
      currentBest == captured.bestStars[level.id]
  IN IF stars > currentBest
     THEN [captured EXCEPT
             !.bestStars[level.id] = stars,
             !.unlockedLevels =
                IF ~Includes(@, level.id + 1) /\ LevelExists(level.id + 1)
                THEN Append(@, level.id + 1) ELSE @]
     ELSE captured

\* newProgress.unlockedLevels.push(level.id + 1) followed by
\* setProgress(newProgress), seen from the other suspended executions: the
\* push is made on the array `arr` itself, so every execution that holds it
\* reads `unlocked` from now on, and that array becomes the page's
SharePush(others, arr, unlocked) ==
  [j \in 1..Len(others) |->
     IF others[j].arr = arr
     THEN [others[j] EXCEPT !.progress.unlockedLevels = unlocked, !.arr = 0]
     ELSE IF others[j].arr = 0 THEN [others[j] EXCEPT !.arr = arr]
     ELSE others[j]]

\* Complete with a goal check that compares the row only
CompleteRowOnly(run, finalPos, others) ==
  LET level == getLevelById(run.level)
      updatedProgress == ProgressAfterSuccess(run.progress, level, run.used)
      held == IF updatedProgress # run.progress
              THEN SharePush(others, run.arr, updatedProgress.unlockedLevels)
              ELSE others
      self == IF updatedProgress # run.progress
              THEN [run EXCEPT
                      !.progress.unlockedLevels = updatedProgress.unlockedLevels,
                      !.arr = 0]
              ELSE run
  IN IF finalPos.y = level.goal.y
     THEN /\ runStatus' = "success"
          /\ IF updatedProgress # run.progress
             THEN /\ progress' = updatedProgress
                  /\ storage' = << updatedProgress >>
             ELSE UNCHANGED << progress, storage >>
          /\ runs' = IF /\ LevelExists(level.id + 1)
                        /\ Includes(updatedProgress.unlockedLevels, level.id + 1)
                     THEN Append(held, [self EXCEPT !.pc = "advance"])
                     ELSE held
     ELSE /\ runStatus' = "crash"
          /\ runs' = others
          /\ UNCHANGED << progress, storage >>

\* Complete recording the stars and the unlock also when the goal was missed
CompleteScoresCrash(run, finalPos, others) ==
  LET level == getLevelById(run.level)
      updatedProgress == ProgressAfterSuccess(run.progress, level, run.used)
      held == IF updatedProgress # run.progress
              THEN SharePush(others, run.arr, updatedProgress.unlockedLevels)
              ELSE others
      self == IF updatedProgress # run.progress
              THEN [run EXCEPT
                      !.progress.unlockedLevels = updatedProgress.unlockedLevels,
                      !.arr = 0]
              ELSE run
  IN IF finalPos.x = level.goal.x /\ finalPos.y = level.goal.y
     THEN /\ runStatus' = "success"
          /\ IF updatedProgress # run.progress
             THEN /\ progress' = updatedProgress
                  /\ storage' = << updatedProgress >>
             ELSE UNCHANGED << progress, storage >>
          /\ runs' = IF /\ LevelExists(level.id + 1)
                        /\ Includes(updatedProgress.unlockedLevels, level.id + 1)
                     THEN Append(held, [self EXCEPT !.pc = "advance"])
                     ELSE held
     ELSE /\ runStatus' = "crash"
          /\ runs' = held
          /\ progress' = updatedProgress
          /\ storage' = << updatedProgress >>

\* the end of handleRunProgram, after the step loop: the goal check, the
\* progress update and the wait before the automatic advance.  `run` is the
\* execution, `others` the other suspended executions; `held` is what they
\* hold after the push on the array they may share with `run`.
Complete(run, finalPos, others) ==
  LET level == getLevelById(run.level)
      updatedProgress == ProgressAfterSuccess(run.progress, level, run.used)
      held == IF updatedProgress # run.progress
              THEN SharePush(others, run.arr, updatedProgress.unlockedLevels)
              ELSE others
      self == IF updatedProgress # run.progress
              THEN [run EXCEPT
                      !.progress.unlockedLevels = updatedProgress.unlockedLevels,
                      !.arr = 0]
              ELSE run
  IN IF finalPos.x = level.goal.x /\ finalPos.y = level.goal.y
     THEN /\ runStatus' = "success"
          /\ IF updatedProgress # run.progress
             THEN /\ progress' = updatedProgress
                  /\ storage' = << updatedProgress >>
             ELSE UNCHANGED << progress, storage >>
          /\ runs' = IF /\ LevelExists(level.id + 1)
                        /\ Includes(updatedProgress.unlockedLevels, level.id + 1)
                     THEN Append(held, [self EXCEPT !.pc = "advance"])
                     ELSE held
     ELSE /\ runStatus' = "crash"
          /\ runs' = others
          /\ UNCHANGED << progress, storage >>

\* handleRunProgram scoring the number of instructions instead of the number
\* of attached blocks
HandleRunProgramCountsSteps ==
  LET level == getLevelById(currentLevelId)
      attached == attachedBlocks(program)
      steps == expandProgram(attached)
      run == [steps |-> steps, i |-> 0, pos |-> level.start,
              heading |-> InitialHeading(level), level |-> currentLevelId,
              progress |-> progress, used |-> Len(steps), pc |-> "loop",
              arr |-> 0]
  IN
  IF runStatus = "running" \/ Len(program) = 0 \/ Len(attached) = 0
  THEN /\ lastOp' = Op("run", NullId, "ignored")
       /\ UNCHANGED << program, loopyPos, heading, runStatus, currentLevelId,
                       progress, storage, runs >>
  ELSE /\ loopyPos' = level.start
       /\ heading' = InitialHeading(level)
       /\ UNCHANGED << program, currentLevelId >>
       /\ IF Len(steps) = 0
          THEN /\ Complete(run, level.start, runs)
               /\ lastOp' = Op("run", NullId, "end")
          ELSE /\ runStatus' = "running"
               /\ runs' = Append(runs, run)
               /\ lastOp' = Op("run", NullId, "done")
               /\ UNCHANGED << progress, storage >>

\* handleRunProgram without the test of runStatus in its first line
HandleRunProgramUnguarded ==
  LET level == getLevelById(currentLevelId)
      attached == attachedBlocks(program)
      steps == expandProgram(attached)
      run == [steps |-> steps, i |-> 0, pos |-> level.start,
              heading |-> InitialHeading(level), level |-> currentLevelId,
              progress |-> progress, used |-> Len(attached), pc |-> "loop",
              arr |-> 0]
  IN
  IF Len(program) = 0 \/ Len(attached) = 0
  THEN /\ lastOp' = Op("run", NullId, "ignored")
       /\ UNCHANGED << program, loopyPos, heading, runStatus, currentLevelId,
                       progress, storage, runs >>
  ELSE /\ loopyPos' = level.start
       /\ heading' = InitialHeading(level)
       /\ UNCHANGED << program, currentLevelId >>
       /\ IF Len(steps) = 0
          THEN /\ Complete(run, level.start, runs)
               /\ lastOp' = Op("run", NullId, "end")
          ELSE /\ runStatus' = "running"
               /\ runs' = Append(runs, run)
               /\ lastOp' = Op("run", NullId, "done")
               /\ UNCHANGED << progress, storage >>

\* handleRunProgram without the two setters of the run start: the execution
\* goes on from the position and heading on display
HandleRunProgramKeepsPose ==
  LET level == getLevelById(currentLevelId)
      attached == attachedBlocks(program)
      steps == expandProgram(attached)
      run == [steps |-> steps, i |-> 0, pos |-> loopyPos,
              heading |-> heading, level |-> currentLevelId,
              progress |-> progress, used |-> Len(attached), pc |-> "loop",
              arr |-> 0]
  IN
  IF runStatus = "running" \/ Len(program) = 0 \/ Len(attached) = 0
  THEN /\ lastOp' = Op("run", NullId, "ignored")
       /\ UNCHANGED << program, loopyPos, heading, runStatus, currentLevelId,
                       progress, storage, runs >>
  ELSE /\ UNCHANGED << program, currentLevelId, loopyPos, heading >>
       /\ IF Len(steps) = 0
          THEN /\ Complete(run, loopyPos, runs)
               /\ lastOp' = Op("run", NullId, "end")
          ELSE /\ runStatus' = "running"
               /\ runs' = Append(runs, run)
               /\ lastOp' = Op("run", NullId, "done")
               /\ UNCHANGED << progress, storage >>

\* handleRunProgram up to its first await
HandleRunProgram ==
  LET level == getLevelById(currentLevelId)
      attached == attachedBlocks(program)
      steps == expandProgram(attached)
      run == [steps |-> steps, i |-> 0, pos |-> level.start,
              heading |-> InitialHeading(level), level |-> currentLevelId,
              progress |-> progress, used |-> Len(attached), pc |-> "loop",
              arr |-> 0]
  IN
  IF runStatus = "running" \/ Len(program) = 0 \/ Len(attached) = 0
  THEN /\ lastOp' = Op("run", NullId, "ignored")
       /\ UNCHANGED << program, loopyPos, heading, runStatus, currentLevelId,
                       progress, storage, runs >>
  ELSE /\ loopyPos' = level.start
       /\ heading' = InitialHeading(level)
       /\ UNCHANGED << program, currentLevelId >>
       /\ IF Len(steps) = 0
          THEN /\ Complete(run, level.start, runs)
               /\ lastOp' = Op("run", NullId, "end")
          ELSE /\ runStatus' = "running"
               /\ runs' = Append(runs, run)
               /\ lastOp' = Op("run", NullId, "done")
               /\ UNCHANGED << progress, storage >>

\* an iteration in which a POINT_* instruction also moves the actor one cell
\* in the new heading
StepOutcomeTurnMoves(step, pos, h, level) ==
  LET newHeading == getHeadingFromBlockType(step)
      isLegacy == step \in {"MOVE_UP", "MOVE_DOWN", "MOVE_LEFT", "MOVE_RIGHT"}
      legacyHeading == CASE step = "MOVE_LEFT" -> 270
                         [] step = "MOVE_RIGHT" -> 90
                         [] step = "MOVE_UP" -> 0
                         [] OTHER -> 180
      moves == newHeading # NoHeading \/ step = "MOVE_FORWARD" \/ isLegacy
      newPos == IF newHeading # NoHeading THEN applyMoveForward(pos, newHeading)
                ELSE IF step = "MOVE_FORWARD" THEN applyMoveForward(pos, h)
                ELSE IF isLegacy THEN applyMove(pos, step)
                ELSE pos
  IN [pos |-> newPos,
      heading |-> IF newHeading # NoHeading THEN newHeading
                  ELSE IF isLegacy THEN legacyHeading
                  ELSE h,
      setsPos |-> moves,
      setsHeading |-> newHeading # NoHeading \/ isLegacy,
      crashed |-> moves /\ (isOutOfBounds(newPos, level) \/ isWall(newPos, level))]

\* what one iteration of the step loop does with the instruction `step` for an
\* execution at position `pos` with heading `h` on `level`: the new
\* currentPos / currentHeading, whether setLoopyPos and setHeading are
\* called, and whether the iteration ends in the crash return
StepOutcome(step, pos, h, level) ==
  LET newHeading == getHeadingFromBlockType(step)
      isLegacy == step \in {"MOVE_UP", "MOVE_DOWN", "MOVE_LEFT", "MOVE_RIGHT"}
      legacyHeading == CASE step = "MOVE_LEFT" -> 270
                         [] step = "MOVE_RIGHT" -> 90
                         [] step = "MOVE_UP" -> 0
                         [] OTHER -> 180
      moves == newHeading = NoHeading /\ (step = "MOVE_FORWARD" \/ isLegacy)
      newPos == IF newHeading # NoHeading THEN pos
                ELSE IF step = "MOVE_FORWARD" THEN applyMoveForward(pos, h)
                ELSE IF isLegacy THEN applyMove(pos, step)
                ELSE pos
  IN [pos |-> newPos,
      heading |-> IF newHeading # NoHeading THEN newHeading
                  ELSE IF isLegacy THEN legacyHeading
                  ELSE h,
      setsPos |-> moves,
      setsHeading |-> newHeading # NoHeading \/ isLegacy,
      crashed |-> moves /\ (isOutOfBounds(newPos, level) \/ isWall(newPos, level))]

\* a step loop that expands the workspace anew at every iteration instead of
\* walking the sequence computed before the loop
RunStepReadsProgram(k) ==
  /\ k \in 1..Len(runs)
  /\ runs[k].pc = "loop"
  /\ LET steps == expandProgram(attachedBlocks(program))
         run == [runs[k] EXCEPT !.steps = steps]
         out == IF run.i < Len(steps)
                THEN StepOutcome(steps[run.i + 1], run.pos, run.heading,
                                 getLevelById(run.level))
                ELSE [pos |-> run.pos, heading |-> run.heading,
                      setsPos |-> FALSE, setsHeading |-> FALSE,
                      crashed |-> FALSE]
         next == [run EXCEPT !.i = @ + 1, !.pos = out.pos,
                             !.heading = out.heading]
     IN /\ heading' = IF out.setsHeading THEN out.heading ELSE heading
        /\ loopyPos' = IF out.setsPos THEN out.pos ELSE loopyPos
        /\ IF out.crashed
           THEN /\ runStatus' = "crash"
                /\ runs' = RemoveAt(runs, k)
                /\ lastOp' = Op("step", NullId, "crash")
                /\ UNCHANGED << progress, storage >>
           ELSE IF next.i >= Len(steps)
           THEN /\ Complete(next, out.pos, RemoveAt(runs, k))
                /\ lastOp' = Op("step", NullId, "end")
           ELSE /\ runs' = [runs EXCEPT ![k] = next]
                /\ lastOp' = Op("step", NullId, "more")
                /\ UNCHANGED << runStatus, progress, storage >>
  /\ UNCHANGED << program, currentLevelId >>

\* a step loop whose iteration never advances i
RunStepStalls(k) ==
  /\ k \in 1..Len(runs)
  /\ runs[k].pc = "loop"
  /\ lastOp' = Op("step", NullId, "more")
  /\ UNCHANGED << program, loopyPos, heading, runStatus, currentLevelId,
                  progress, storage, runs >>

\* one iteration of the step loop of the k-th suspended execution, and the end
\* of handleRunProgram when it was the last iteration
RunStep(k) ==
  /\ k \in 1..Len(runs)
  /\ runs[k].pc = "loop"
  /\ LET run == runs[k]
         out == StepOutcome(run.steps[run.i + 1], run.pos, run.heading,
                            getLevelById(run.level))
         next == [run EXCEPT !.i = @ + 1, !.pos = out.pos,
                             !.heading = out.heading]
     IN /\ heading' = IF out.setsHeading THEN out.heading ELSE heading
        /\ loopyPos' = IF out.setsPos THEN out.pos ELSE loopyPos
        /\ IF out.crashed
           THEN /\ runStatus' = "crash"
                /\ runs' = RemoveAt(runs, k)
                /\ lastOp' = Op("step", NullId, "crash")
                /\ UNCHANGED << progress, storage >>
           ELSE IF next.i = Len(run.steps)
           THEN /\ Complete(next, out.pos, RemoveAt(runs, k))
                /\ lastOp' = Op("step", NullId, "end")
           ELSE /\ runs' = [runs EXCEPT ![k] = next]
                /\ lastOp' = Op("step", NullId, "more")
                /\ UNCHANGED << runStatus, progress, storage >>
  /\ UNCHANGED << program, currentLevelId >>

\* the end of the 1.5 s wait of a successful execution: setCurrentLevelId
AutoAdvance(k) ==
  /\ k \in 1..Len(runs)
  /\ runs[k].pc = "advance"
  /\ SetCurrentLevel(runs[k].level + 1)
  /\ runs' = RemoveAt(runs, k)
  /\ lastOp' = Op("advance", NullId, "done")

(* --------------------------- specifications ---------------------------- *)
PaletteTypes ==
  {getLevelById(currentLevelId).allowedBlocks[k] :
     k \in 1..Len(getLevelById(currentLevelId).allowedBlocks)}

\* SpecEdit: the player edits the workspace, resets and changes level, and
\* never presses Run.  The runner never writes `program`, and every reset it
\* can cause (the automatic advance) leaves the workspace as a level change
\* does, so the workspaces reached are those of the whole page.
NextEdit ==
  \/ \E t \in PaletteTypes : Len(program) < MaxBlocks /\ HandleAddBlock(t)
  \/ \E t \in PaletteTypes, d \in DropSet :
       Len(program) < MaxBlocks /\ HandlePaletteDrop(t, d)
  \/ \E id \in 1..MaxBlocks, d \in DropSet : HandleRelocate(id, d)
  \/ \E id \in 1..MaxBlocks, c \in CountChoices : HandleUpdateBlock(id, c)
  \/ HandleReset
  \/ HandleResetGame
  \/ \E id \in LevelIds : HandleSelectLevel(id)

SpecEdit == Init /\ [][NextEdit]_vars

\* SpecRun: the player builds a program by palette drops, sets repeat counts,
\* runs it, resets and changes level; blocks are dropped only while no
\* execution of the runner is suspended.
NextRun ==
  \/ \E t \in PaletteTypes, d \in RunDropSet :
       /\ Len(program) < MaxRunBlocks
       /\ Len(runs) = 0
       /\ HandlePaletteDrop(t, d)
  \/ \E id \in 1..MaxRunBlocks, c \in RunCountChoices : HandleUpdateBlock(id, c)
  \/ HandleReset
  \/ HandleResetGame
  \/ \E id \in LevelIds : HandleSelectLevel(id)
  \/ Len(runs) < MaxRuns /\ HandleRunProgram
  \/ \E k \in 1..MaxRuns : RunStep(k)
  \/ \E k \in 1..MaxRuns : AutoAdvance(k)

SpecRun == Init /\ [][NextRun]_vars

\* SpecRunFair: SpecRun with the timers of the suspended executions firing:
\* while an execution sleeps in its step loop, an iteration is eventually run.
SpecRunFair == SpecRun /\ WF_vars(\E k \in 1..MaxRuns : RunStep(k))

\* SpecStack: the player drops move blocks from the palette (every level's
\* palette holds MOVE_FORWARD) and drags blocks and stacks around, keeping
\* every block between the top of the workspace and MaxStackY.
InStackArea(blocks) ==
  \A k \in 1..Len(blocks) :
    blocks[k].position.y >= 0 /\ blocks[k].position.y <= MaxStackY

NextStack ==
  \/ \E d \in DropSet :
       /\ Len(program) < MaxStackBlocks
       /\ HandlePaletteDrop("MOVE_FORWARD", d)
       /\ InStackArea(program')
  \/ \E id \in 1..MaxStackBlocks, d \in DropSet :
       HandleRelocate(id, d) /\ InStackArea(program')

SpecStack == Init /\ [][NextStack]_vars

\* SpecCrawl: the player builds one chain, dropping each palette block in the
\* snap zone right below the block dropped before it, runs it and resets; one
\* execution at a time.
EndOfChainDrop == Pos(20, 20 + Len(program) * (BLOCK_HEIGHT + BLOCK_SPACING))

NextCrawl ==
  \/ \E t \in PaletteTypes :
       /\ Len(program) < MaxCrawlBlocks
       /\ Len(runs) = 0
       /\ runStatus = "idle"
       /\ HandlePaletteDrop(t, EndOfChainDrop)
  \/ HandleReset
  \/ Len(runs) = 0 /\ HandleRunProgram
  \/ RunStep(1)
  \/ AutoAdvance(1)

SpecCrawl == Init /\ [][NextCrawl]_vars

\* SpecGraph: handleRunProgram applied to program arrays whose nextBlockId
\* fields form any graph over the block ids: chains, cycles, self loops and
\* ids of no block. The entry marker is block 1, block 2 is POINT_RIGHT and
\* the others are MOVE_FORWARD; the page is freshly mounted on level 1 with
\* nothing stored before (the save effect has stored currentLevel 1).
GraphBlock(k, next) ==
  [createBlockInstance(k,
     IF k = 1 THEN "WHEN_RUN_CLICKED"
     ELSE IF k = 2 THEN "POINT_RIGHT" ELSE "MOVE_FORWARD",
     Pos(20, 20 + (k - 1) * (BLOCK_HEIGHT + BLOCK_SPACING)))
   EXCEPT !.connection.nextBlockId = next]

InitGraph ==
  /\ \E g \in [1..MaxGraphBlocks -> 0..(MaxGraphBlocks + 1)] :
       program = [k \in 1..MaxGraphBlocks |-> GraphBlock(k, g[k])]
  /\ currentLevelId = 1
  /\ progress = [loadProgress(<< >>) EXCEPT !.currentLevel = 1]
  /\ storage = << [loadProgress(<< >>) EXCEPT !.currentLevel = 1] >>
  /\ loopyPos = getLevelById(1).start
  /\ heading = InitialHeading(getLevelById(1))
  /\ runStatus = "idle"
  /\ runs = << >>
  /\ lastOp = Op("mount", NullId, "done")

NextGraph ==
  \/ Len(runs) = 0 /\ HandleRunProgram
  \/ RunStep(1)
  \/ HandleReset

SpecGraph == InitGraph /\ [][NextGraph]_vars

\* SpecScore: the page is opened on a level with a record of earlier play in
\* localStorage, the workspace holds a program that solves the level, and the
\* player runs it.  The program is the shortest solution without REPEAT with
\* its first block laid `pad` more times, so that usedCount ranges over
\* values below, at and above par and par + 2.
Copies(type, n) == [k \in 1..n |-> type]

SolutionTypes(levelId, pad) ==
  IF getLevelById(levelId).grid = OpenGrid
  THEN Copies("POINT_RIGHT", pad + 1) \o Copies("MOVE_FORWARD", 4)
  ELSE Copies("POINT_DOWN", pad + 1) \o << "MOVE_FORWARD", "POINT_RIGHT" >>
         \o Copies("MOVE_FORWARD", 4) \o << "POINT_UP", "MOVE_FORWARD" >>

\* the workspace after the blocks were dropped one under the other below the
\* entry marker
ChainProgram(types) ==
  [k \in 1..(Len(types) + 1) |->
     [createBlockInstance(k,
        IF k = 1 THEN "WHEN_RUN_CLICKED" ELSE types[k - 1],
        Pos(20, 20 + (k - 1) * (BLOCK_HEIGHT + BLOCK_SPACING)))
      EXCEPT !.connection =
        [nextBlockId |-> IF k <= Len(types) THEN k + 1 ELSE NullId,
         prevBlockId |-> IF k > 1 THEN k - 1 ELSE NullId]]]

\* the record left by a session in which the levels below levelId were
\* solved with one star and levelId itself with `best` stars (0: not yet)
StoredRecord(levelId, best) ==
  [unlockedLevels |->
     [k \in 1..(IF best > 0 /\ LevelExists(levelId + 1)
                THEN levelId + 1 ELSE levelId) |-> k],
   bestStars |-> [l \in LevelIds |->
                    IF l < levelId THEN 1 ELSE IF l = levelId THEN best ELSE 0],
   currentLevel |-> levelId]

InitScore ==
  \E levelId \in LevelIds, best \in 0..3, pad \in 0..MaxPad :
    LET loaded == loadProgress(<< StoredRecord(levelId, best) >>) IN
    /\ currentLevelId = loaded.currentLevel
    /\ progress = loaded
    /\ storage = << loaded >>
    /\ program = ChainProgram(SolutionTypes(levelId, pad))
    /\ loopyPos = getLevelById(levelId).start
    /\ heading = InitialHeading(getLevelById(levelId))
    /\ runStatus = "idle"
    /\ runs = << >>
    /\ lastOp = Op("mount", NullId, "done")

NextScore ==
  \/ Len(runs) = 0 /\ HandleRunProgram
  \/ RunStep(1)
  \/ AutoAdvance(1)
  \/ HandleReset

SpecScore == InitScore /\ [][NextScore]_vars

\* SpecStale: the player lays the blocks of the level's shortest solution
\* one under the other, presses Run once the solution is complete, and may
\* press Reset Game at any time; blocks are also laid while an execution is
\* suspended in its step loop (handleDragEnd does not look at runStatus).
NextStale ==
  \/ /\ Len(program) <= Len(SolutionTypes(currentLevelId, 0))
     /\ Len(program) < MaxStaleBlocks
     /\ HandlePaletteDrop(SolutionTypes(currentLevelId, 0)[Len(program)],
                          EndOfChainDrop)
  \/ HandleResetGame
  \/ /\ Len(runs) < MaxRuns
     /\ Len(program) = Len(SolutionTypes(currentLevelId, 0)) + 1
     /\ HandleRunProgram
  \/ \E k \in 1..MaxRuns : RunStep(k)
  \/ \E k \in 1..MaxRuns : AutoAdvance(k)

SpecStale == Init /\ [][NextStale]_vars

\* SpecLoad: the page from its first render, before the mount effects, with
\* anything in localStorage: nothing, an item that is not the JSON of a
\* Progress, or the record of an earlier session; after the mount the player
\* lays blocks at the end of the chain and runs them.
LoadStorage ==
  InitialStorage
    \cup { << [raw |-> t] >> : t \in {"", "{bad", "null", "{}"} }
    \cup { << [unlockedLevels |-> <<2>>, bestStars |-> [NoStars EXCEPT ![1] = 3],
               currentLevel |-> 2] >> }

\* the useState initial values
InitLoad ==
  /\ storage \in LoadStorage
  /\ progress = DefaultProgress
  /\ currentLevelId = 1
  /\ program = << >>
  /\ loopyPos = getLevelById(1).start
  /\ heading = InitialHeading(getLevelById(1))
  /\ runStatus = "idle"
  /\ runs = << >>
  /\ lastOp = Op("render", NullId, "done")

\* the mount effects (as in Init) on the item found in localStorage; the
\* result is "caught" when the catch block of loadProgress ran
Mount ==
  /\ lastOp.op = "render"
  /\ LET loaded == loadProgress(storage)
         lvl == IF loaded.currentLevel # 0
                   /\ Includes(loaded.unlockedLevels, loaded.currentLevel)
                THEN loaded.currentLevel
                ELSE IF Len(loaded.unlockedLevels) > 0
                THEN loaded.unlockedLevels[1]
                ELSE 1
     IN /\ currentLevelId' = lvl
        /\ progress' = [loaded EXCEPT !.currentLevel = lvl]
        /\ storage' = << [loaded EXCEPT !.currentLevel = lvl] >>
        /\ program' = initializeWorkspace
        /\ loopyPos' = getLevelById(lvl).start
        /\ heading' = InitialHeading(getLevelById(lvl))
        /\ runStatus' = "idle"
        /\ lastOp' = Op("mount", NullId,
                        IF loadProgressTry(storage).threw THEN "caught" ELSE "done")
        /\ UNCHANGED runs

NextLoad ==
  \/ Mount
  \/ \E t \in PaletteTypes :
       /\ lastOp.op # "render"
       /\ Len(program) < MaxLoadBlocks
       /\ Len(runs) = 0
       /\ HandlePaletteDrop(t, EndOfChainDrop)
  \/ lastOp.op # "render" /\ Len(runs) = 0 /\ HandleRunProgram
  \/ RunStep(1)
  \/ lastOp.op # "render" /\ HandleReset

SpecLoad == InitLoad /\ [][NextLoad]_vars

\* SpecNest: the player drops REPEAT and MOVE_FORWARD blocks (MOVE_FORWARD
\* only on level 1, whose palette has no REPEAT) and relocates blocks.  Every
\* attach under a REPEAT stores a copy of the moved block, with the copies it
\* holds itself, so the number of copies held is bounded in the guards.
RECURSIVE CopiesIn(_)
CopiesIn(children) ==
  IF Len(children) = 0 THEN 0
  ELSE 1 + CopiesIn(Head(children).children) + CopiesIn(Tail(children))

RECURSIVE CopiesHeld(_)
CopiesHeld(blocks) ==
  IF Len(blocks) = 0 THEN 0
  ELSE CopiesIn(Head(blocks).children) + CopiesHeld(Tail(blocks))

NextNest ==
  \/ \E t \in PaletteTypes \ {"POINT_RIGHT"}, d \in DropSet :
       /\ Len(program) < MaxNestBlocks
       /\ HandlePaletteDrop(t, d)
       /\ InStackArea(program')
  \/ \E id \in 1..MaxNestBlocks, d \in DropSet :
       /\ HandleRelocate(id, d)
       /\ InStackArea(program')
       /\ CopiesHeld(program') <= MaxNestCopies

SpecNest == Init /\ [][NextNest]_vars

\* SpecSnap: MOVE_FORWARD blocks are dropped at positions on, just inside and
\* just outside the edges of the snap zone below the entry marker (its centre
\* is (20, 60)), and at positions that are as near to one block as to another:
\* (40, 60), at offsets (20, 0) and (-20, 0) from the zones of blocks at
\* (20, 20) and (60, 20), and (100, 100), at offsets (15, 5) and (13, 9) from
\* the zones of blocks at (85, 55) and (87, 51).
SnapDropSet ==
  {Pos(20, 60), Pos(20, 75), Pos(20, 76), Pos(20, 45), Pos(20, 44),
   Pos(60, 60), Pos(61, 60), Pos(60, 20), Pos(40, 60), Pos(45, 60),
   Pos(85, 55), Pos(87, 51), Pos(100, 100)}

NextSnap ==
  \E d \in SnapDropSet :
    /\ Len(program) < MaxSnapBlocks
    /\ HandlePaletteDrop("MOVE_FORWARD", d)

SpecSnap == Init /\ [][NextSnap]_vars

(* ------------------------------ properties ----------------------------- *)
Ids(blocks) == {blocks[k].id : k \in 1..Len(blocks)}

\* the ids met following nextBlockId from `id`, at most n of them, with no
\* guard against meeting an id again
RECURSIVE NextWalk(_, _, _)
NextWalk(blocks, id, n) ==
  IF n = 0 \/ id = NullId \/ ~HasBlock(blocks, id) THEN << >>
  ELSE << id >> \o NextWalk(blocks, BlockOf(blocks, id).connection.nextBlockId,
                            n - 1)

NoRepeatedId(walk) ==
  \A i, j \in 1..Len(walk) : i # j => walk[i] # walk[j]

EntryIndexes == {k \in 1..Len(program) : program[k].type = "WHEN_RUN_CLICKED"}

\* C1: the next-chain from the entry marker holds no block id twice and a
\* traversal of it ends within blockCount steps; more generally no traversal
\* of nextBlockId from any block runs into a cycle.
C1_NextChainAcyclic ==
  /\ \A e \in EntryIndexes :
       LET walk == NextWalk(program, program[e].id, Len(program) + 1) IN
       /\ NoRepeatedId(walk)
       /\ Len(walk) <= Len(program)
  /\ \A k \in 1..Len(program) :
       Len(NextWalk(program, program[k].id, Len(program) + 1)) <= Len(program)

\* a relocation has just re-attached a block into an entry chain of two or
\* more blocks
C1_Witness ==
  /\ lastOp.op = "relocate"
  /\ Len(attachedBlocks(program)) >= 2
  /\ \E k \in 1..Len(attachedBlocks(program)) :
       attachedBlocks(program)[k].id = lastOp.id

\* the block is on a next chain: it has a next block or is the next of one
OnNextChain(blocks, id) ==
  \/ BlockOf(blocks, id).connection.nextBlockId # NullId
  \/ \E k \in 1..Len(blocks) : blocks[k].connection.nextBlockId = id

\* the REPEAT blocks of the array whose children hold the id
ParentsOf(blocks, id) ==
  {k \in 1..Len(blocks) :
     blocks[k].type = "REPEAT" /\ HasChild(blocks[k].children, id)}

\* C2: every block is in at most one place: on a next/prev chain or in the
\* child list of exactly one repeat block, never both and never in two lists.
C2_OnePlace ==
  \A id \in Ids(program) :
    /\ ~(OnNextChain(program, id) /\ ParentsOf(program, id) # {})
    /\ Cardinality(ParentsOf(program, id)) <= 1

\* C3: at most one entry marker, whose prev is null and which is in no repeat
\* block's child list.
C3_EntryMarkerIsRoot ==
  /\ Cardinality(EntryIndexes) <= 1
  /\ \A e \in EntryIndexes :
       /\ program[e].connection.prevBlockId = NullId
       /\ \A k \in 1..Len(program) :
            program[e].id \notin NestedIds(program[k].children)

\* the entry marker has just been dropped exactly under another block, where
\* any other block would have snapped
C3_Witness ==
  /\ lastOp.op = "relocate"
  /\ \E e \in EntryIndexes :
       /\ lastOp.id = program[e].id
       /\ \E k \in 1..Len(program) :
            /\ k # e
            /\ program[e].position =
                 Pos(program[k].position.x, program[k].position.y + BLOCK_HEIGHT)

\* the connection record of the block with the id
ConnectionOf(blocks, id) == BlockOf(blocks, id).connection

\* the array handleDragEnd hands to applySnapping when block a is dropped at d
StackMoved(blocks, a, d) ==
  TranslateStack(blocks, getStackBlocks(blocks, a, Len(blocks)),
                 d.x - BlockOf(blocks, a).position.x,
                 d.y - BlockOf(blocks, a).position.y)

\* the drop position is within the snap zone below the block
InSnapZone(block, d) ==
  /\ Abs(d.x - block.position.x) <= SNAP_HORIZONTAL_TOLERANCE
  /\ Abs(d.y - (block.position.y + BLOCK_HEIGHT)) <= SNAP_VERTICAL_DISTANCE

\* block a is dragged and dropped at d, in the snap zone below a block b that
\* is after a on a's next chain, and in the snap zone of no other block
AttachBelowDescendant(a, b, d) ==
  /\ HasBlock(program, a) /\ HasBlock(program, b) /\ a # b
  /\ BlockOf(program, a).type # "WHEN_RUN_CLICKED"
  /\ b \in getStackBlocks(program, a, Len(program))
  /\ LET moved == StackMoved(program, a, d) IN
     \A k \in 1..Len(moved) :
       moved[k].id # a => (InSnapZone(moved[k], d) <=> moved[k].id = b)
  /\ HandleRelocate(a, d)

\* C4: Scenario E: when B is a descendant of A via next, an attempt to attach
\* A below B is a no-op: the connection records of A and of B are the same
\* after the operation as before it.
C4_ScenarioE ==
  [][\A a, b \in 1..MaxStackBlocks, d \in DropSet :
       AttachBelowDescendant(a, b, d) =>
         /\ ConnectionOf(program', a) = ConnectionOf(program, a)
         /\ ConnectionOf(program', b) = ConnectionOf(program, b)]_vars

\* the execution the k-th suspended runner resumes, and the instruction it is at
RunAt(k) == runs[k]
StepAt(k) == runs[k].steps[runs[k].i + 1]

\* the k-th suspended execution runs one iteration of its step loop
Stepping(k) == k \in 1..Len(runs) /\ runs[k].pc = "loop" /\ RunStep(k)

\* the unit vector of a heading, as the claim states it
UnitVector(h) ==
  CASE h = 0 -> Pos(0, -1)
    [] h = 90 -> Pos(1, 0)
    [] h = 180 -> Pos(0, 1)
    [] h = 270 -> Pos(-1, 0)

\* the position is a tile of the level's grid and that tile is not a wall
FreeTile(pos, level) ==
  /\ pos.x \in 0..(level.width - 1)
  /\ pos.y \in 0..(level.height - 1)
  /\ level.grid[pos.y * level.width + pos.x + 1] # "wall"

\* where an execution stands after its instruction `step`
AfterStep(step, pos, h) ==
  IF step = "MOVE_FORWARD"
  THEN Pos(pos.x + UnitVector(h).x, pos.y + UnitVector(h).y)
  ELSE pos

\* C5: when a run has executed its whole instruction sequence without a wall
\* or bounds violation, the status becomes success if and only if the actor's
\* final position is the level's goal, and crash in every other case.
C5_GoalDecidesOutcome ==
  [][/\ \A k \in 1..MaxRuns :
          (Stepping(k) /\ lastOp'.result = "end") =>
            LET final == AfterStep(StepAt(k), RunAt(k).pos, RunAt(k).heading)
                goal == getLevelById(RunAt(k).level).goal
            IN /\ StepAt(k) = "MOVE_FORWARD" => loopyPos' = final
               /\ runStatus' = IF final = goal THEN "success" ELSE "crash"
     /\ (HandleRunProgram /\ lastOp'.result = "end") =>
          LET level == getLevelById(currentLevelId) IN
          runStatus' = IF level.start = level.goal THEN "success" ELSE "crash"
    ]_vars

\* an execution has just finished its instructions on a tile of the grid that
\* is not the goal, and the status is crash
C5_Witness ==
  /\ lastOp = Op("step", NullId, "end")
  /\ runStatus = "crash"
  /\ FreeTile(loopyPos, getLevelById(currentLevelId))
  /\ loopyPos # getLevelById(currentLevelId).goal
  /\ loopyPos # getLevelById(currentLevelId).start

\* C6: a move-forward step targets position + unit vector of the heading; a
\* target inside the grid and not a wall becomes the position and the run goes
\* on; any other target becomes the reported position, the status becomes
\* crash and the execution runs no further instruction.
C6_MoveForward ==
  [][\A k \in 1..MaxRuns :
       (Stepping(k) /\ StepAt(k) = "MOVE_FORWARD") =>
         LET target == Pos(RunAt(k).pos.x + UnitVector(RunAt(k).heading).x,
                           RunAt(k).pos.y + UnitVector(RunAt(k).heading).y)
         IN /\ loopyPos' = target
            /\ heading' = heading
            /\ IF FreeTile(target, getLevelById(RunAt(k).level))
               THEN /\ lastOp'.result \in {"more", "end"}
                    /\ lastOp'.result = "more" =>
                         /\ runStatus' = runStatus
                         /\ runs' = [runs EXCEPT ![k].pos = target,
                                                 ![k].i = @ + 1]
               ELSE /\ lastOp'.result = "crash"
                    /\ runStatus' = "crash"
                    /\ runs' = RemoveAt(runs, k)
    ]_vars

\* a move-forward step has just crashed one tile outside the grid
C6_Witness ==
  /\ lastOp = Op("step", NullId, "crash")
  /\ runStatus = "crash"
  /\ \/ loopyPos.x \in {-1, getLevelById(currentLevelId).width}
     \/ loopyPos.y \in {-1, getLevelById(currentLevelId).height}

\* the changes of status the claim lists
ListedTransitions ==
  { << "idle", "running" >>, << "running", "success" >>,
    << "running", "crash" >>, << "success", "idle" >>, << "crash", "idle" >> }

\* C7 as claimed: the run status only ever changes along idle -> running,
\* running -> success, running -> crash, success -> idle and crash -> idle; in
\* particular running is entered only from idle.
C7_ListedTransitionsOnly ==
  [][runStatus' # runStatus => << runStatus, runStatus' >> \in ListedTransitions]_vars

\* C7 amended: the status becomes running only by a run request made while it
\* is idle, success or crash; it becomes success or crash only by the runner (a
\* step or the end of an execution); it becomes idle only by Reset pressed
\* while it is success or crash, by Reset Game or by a change of level.
C7_StatusChangedBy ==
  [][runStatus' # runStatus =>
       CASE runStatus' = "running" ->
              lastOp' = Op("run", NullId, "done")
         [] runStatus' \in {"success", "crash"} ->
              \/ lastOp'.op = "step" /\ lastOp'.result \in {"crash", "end"}
              \/ lastOp' = Op("run", NullId, "end")
         [] runStatus' = "idle" ->
              \/ lastOp' = Op("reset", NullId, "done")
                   /\ runStatus \in {"success", "crash"}
              \/ lastOp'.op \in {"resetGame", "selectLevel", "advance"}
    ]_vars

\* a run request has just been accepted while an execution that ended in
\* success still waits for its automatic advance
C7_Witness ==
  /\ lastOp = Op("run", NullId, "done")
  /\ runStatus = "running"
  /\ \E k \in 1..Len(runs) : runs[k].pc = "advance"

\* C8: a run request issued while the status is running changes neither the
\* status, the position, the heading, the program nor the progress, and starts
\* no execution then or later.
C8_RunWhileRunningIgnored ==
  [][(runStatus = "running" /\ HandleRunProgram) =>
       /\ UNCHANGED << runStatus, loopyPos, heading, program, progress,
                       storage, currentLevelId, runs >>
       /\ lastOp' = Op("run", NullId, "ignored")
    ]_vars

\* a run request has just been ignored while an execution is in flight
C8_Witness ==
  /\ lastOp = Op("run", NullId, "ignored")
  /\ runStatus = "running"
  /\ Len(attachedBlocks(program)) > 0
  /\ \E k \in 1..Len(runs) : runs[k].pc = "loop"

\* C9: after a reset performed while a run is in flight, the remaining steps
\* and the completion of that run change none of run status, position,
\* heading, current level and progress.
C9_ResetDiscardsRun ==
  [][(/\ lastOp.op \in {"reset", "resetGame"}
      /\ lastOp.result = "done"
      /\ Len(runs) > 0
      /\ lastOp'.op \in {"step", "advance"}) =>
       UNCHANGED << runStatus, loopyPos, heading, currentLevelId, progress >>
    ]_vars

\* the blocks on the next chain below the entry marker, by at most
\* blockCount hops
ChainBelowEntry ==
  IF EntryIndexes = {} THEN << >>
  ELSE LET e == CHOOSE k \in EntryIndexes : \A j \in EntryIndexes : k <= j
           ids == NextWalk(program, program[e].connection.nextBlockId,
                           Len(program))
       IN [k \in 1..Len(ids) |-> BlockOf(program, ids[k])]

\* the instruction sequence of a block list as the claim describes it
RECURSIVE Compiled(_, _)
Compiled(blocks, n) ==
  IF n = 0 THEN << >>
  ELSE LET b == blocks[n]
           inner == Compiled(b.children, Len(b.children))
           own == IF b.type = "REPEAT"
                  THEN [i \in 1..(b.count * Len(inner)) |->
                          inner[((i - 1) % Len(inner)) + 1]]
                  ELSE << b.type >>
       IN Compiled(blocks, n - 1) \o own

\* C10: the instruction sequence a run executes is the walk of the next chain
\* from the block attached to the entry marker, a repeat block contributing
\* the expansion of its child list count times and every other block its own
\* kind once, in chain order.
C10_Expansion ==
  [][/\ lastOp' = Op("run", NullId, "done") =>
          runs'[Len(runs')].steps =
            Compiled(ChainBelowEntry, Len(ChainBelowEntry))
     /\ lastOp' = Op("run", NullId, "end") =>
          /\ ChainBelowEntry # << >>
          /\ Compiled(ChainBelowEntry, Len(ChainBelowEntry)) = << >>
    ]_vars

\* the program [point-right, repeat(4){move-forward}] has just been compiled
\* to [point-right, move-forward x4]
C10_Witness ==
  /\ lastOp = Op("run", NullId, "done")
  /\ Len(ChainBelowEntry) = 2
  /\ ChainBelowEntry[1].type = "POINT_RIGHT"
  /\ ChainBelowEntry[2].type = "REPEAT"
  /\ ChainBelowEntry[2].count = 4
  /\ Len(ChainBelowEntry[2].children) = 1
  /\ ChainBelowEntry[2].children[1].type = "MOVE_FORWARD"
  /\ runs[Len(runs)].steps =
       << "POINT_RIGHT", "MOVE_FORWARD", "MOVE_FORWARD", "MOVE_FORWARD",
          "MOVE_FORWARD" >>

\* the star rating of a block count against a par, as the specification gives it
StarsFor(usedCount, par) ==
  IF usedCount <= par THEN 3 ELSE IF usedCount <= par + 2 THEN 2 ELSE 1

\* the k-th suspended execution runs its last instruction and ends in success
Succeeding(k) ==
  /\ Stepping(k)
  /\ lastOp'.result = "end"
  /\ runStatus' = "success"

\* C11: the usedCount passed to scoring is the number of blocks on the next
\* chain attached to the entry marker, a repeat block counting as one block
\* whatever its count and its children; the stars a successful run stores are
\* those of that number against the level's par.
C11_UsedCount ==
  [][/\ lastOp' = Op("run", NullId, "done") =>
          runs'[Len(runs')].used = Len(ChainBelowEntry)
     /\ \A k \in 1..MaxRuns :
          (Succeeding(k) /\ progress' # progress) =>
            progress'.bestStars[RunAt(k).level] =
              StarsFor(RunAt(k).used,
                       getLevelById(RunAt(k).level).optimalBlockCount)
    ]_vars

\* [point-right, repeat(4){move-forward}] has just succeeded on level 2 (par
\* 3): five instructions, two blocks, three stars
C11_Witness ==
  /\ lastOp = Op("step", NullId, "end")
  /\ runStatus = "success"
  /\ Len(ChainBelowEntry) = 2
  /\ ChainBelowEntry[2].type = "REPEAT"
  /\ ChainBelowEntry[2].count = 4
  /\ progress.bestStars[2] = 3
  /\ \E k \in 1..Len(runs) :
       /\ runs[k].pc = "advance"
       /\ runs[k].level = 2
       /\ runs[k].used = 2
       /\ Len(runs[k].steps) = 5

\* the instruction sequence of Scenario A
ScenarioASteps ==
  << "POINT_RIGHT", "MOVE_FORWARD", "MOVE_FORWARD", "MOVE_FORWARD",
     "MOVE_FORWARD" >>

\* the chain attached to the entry marker is the program of Scenario A
ScenarioAProgram ==
  /\ Len(ChainBelowEntry) = 5
  /\ \A k \in 1..5 : ChainBelowEntry[k].type = ScenarioASteps[k]

\* the k-th suspended execution is that of Scenario A, started on level 1
ScenarioARun(k) ==
  /\ k \in 1..Len(runs)
  /\ runs[k].level = 1
  /\ runs[k].steps = ScenarioASteps
  /\ runs[k].used = 5

\* C12: Scenario A: on level 1 the program [point-right, move-forward x4]
\* expands to [point-right, move-forward x4]; running it crashes at no step
\* and ends at (4,1) with heading 90, status success, usedCount 5 and 3 stars.
C12_ScenarioA ==
  [][/\ (currentLevelId = 1 /\ ScenarioAProgram /\ HandleRunProgram
           /\ runStatus # "running") =>
          /\ lastOp' = Op("run", NullId, "done")
          /\ runs'[Len(runs')].steps = ScenarioASteps
          /\ runs'[Len(runs')].used = 5
          /\ loopyPos' = Pos(0, 1)
          /\ heading' = 270
     /\ \A k \in 1..MaxRuns :
          (ScenarioARun(k) /\ Stepping(k)) =>
            /\ lastOp'.result # "crash"
            /\ runs[k].i = 4 =>
                 /\ lastOp'.result = "end"
                 /\ loopyPos' = Pos(4, 1)
                 /\ heading' = 90
                 /\ runStatus' = "success"
                 /\ progress'.bestStars[1] = 3
    ]_vars

\* Scenario A has just ended on level 1
C12_Witness ==
  /\ lastOp = Op("step", NullId, "end")
  /\ currentLevelId = 1
  /\ ScenarioAProgram
  /\ loopyPos = Pos(4, 1)
  /\ heading = 90
  /\ runStatus = "success"
  /\ progress.bestStars[1] = 3
  /\ \E k \in 1..Len(runs) : ScenarioARun(k) /\ runs[k].pc = "advance"

\* C13: when no block is attached to the entry marker a run request is a
\* complete no-op: no execution starts and status, actor position and heading
\* (and program and progress) are unchanged.
C13_EmptyRunIsNoOp ==
  [][(Len(ChainBelowEntry) = 0 /\ HandleRunProgram) =>
       /\ UNCHANGED << runStatus, loopyPos, heading, runs, program, progress,
                       storage, currentLevelId >>
       /\ lastOp' = Op("run", NullId, "ignored")
    ]_vars

\* a run request has just been ignored in status idle with a block in the
\* workspace that is not attached to the entry marker
C13_Witness ==
  /\ lastOp = Op("run", NullId, "ignored")
  /\ runStatus = "idle"
  /\ Len(program) >= 2
  /\ Len(ChainBelowEntry) = 0
  /\ Compiled(ChainBelowEntry, Len(ChainBelowEntry)) = << >>

\* C14: every run that enters running eventually reaches a terminal status,
\* success or crash, when the step loop is scheduled fairly.
C14_RunTerminates ==
  (runStatus = "running") ~> (runStatus \in {"success", "crash"})

\* an execution has just run its last iteration and no execution is left in
\* its step loop
C14_Witness ==
  /\ lastOp.op = "step"
  /\ lastOp.result \in {"crash", "end"}
  /\ runStatus \in {"success", "crash"}
  /\ \A k \in 1..Len(runs) : runs[k].pc # "loop"

\* C15: the walk that collects the blocks attached to the entry marker ends
\* on every nextBlockId graph: it collects each block id at most once, follows
\* nextBlockId from the entry marker's next block, and stops where the next
\* id is null, is the id of no block, or was collected already.
C15_WalkStopsAtRepeat ==
  \A e \in EntryIndexes :
    e = WhenRunClickedIndex(program) =>
      LET chain == attachedBlocks(program)
          n == Len(chain)
          stopId == IF n = 0 THEN program[e].connection.nextBlockId
                    ELSE chain[n].connection.nextBlockId
      IN /\ n <= Len(program)
         /\ \A i, j \in 1..n : i # j => chain[i].id # chain[j].id
         /\ n > 0 => chain[1].id = program[e].connection.nextBlockId
         /\ \A k \in 1..n : chain[k] = BlockOf(program, chain[k].id)
         /\ \A k \in 1..(n - 1) : chain[k + 1].id = chain[k].connection.nextBlockId
         /\ \/ stopId = NullId
            \/ ~HasBlock(program, stopId)
            \/ \E k \in 1..n : chain[k].id = stopId

\* a program whose chain from the entry marker runs into a cycle of two or
\* more blocks was run
C15_Witness ==
  /\ lastOp = Op("run", NullId, "done")
  /\ LET chain == attachedBlocks(program) IN
       /\ Len(chain) >= 2
       /\ \E k \in 1..(Len(chain) - 1) :
            chain[Len(chain)].connection.nextBlockId = chain[k].id

\* C16: scoring is stars(usedCount, par) = 3 if usedCount <= par, 2 if
\* par < usedCount <= par + 2, 1 otherwise, always one of 1, 2, 3; and it is
\* the value a first successful run of a level stores for that level.
Stars(usedCount, par) ==
  CASE usedCount <= par -> 3
    [] par < usedCount /\ usedCount <= par + 2 -> 2
    [] OTHER -> 1

C16_Scoring ==
  [][/\ \A usedCount \in 0..MaxUsed, par \in 0..MaxPar :
          /\ calculateStars(usedCount, par) = Stars(usedCount, par)
          /\ calculateStars(usedCount, par) \in {1, 2, 3}
     /\ (RunStep(1) /\ runStatus' = "success"
           /\ runs[1].progress.bestStars[runs[1].level] = 0) =>
          progress'.bestStars[runs[1].level] =
            Stars(runs[1].used, getLevelById(runs[1].level).optimalBlockCount)
    ]_vars

\* a first successful run of a level that used par + 2 blocks scored 2 stars
C16_Witness ==
  /\ lastOp = Op("step", NullId, "end")
  /\ runStatus = "success"
  /\ Len(ChainBelowEntry) = getLevelById(currentLevelId).optimalBlockCount + 2
  /\ progress.bestStars[currentLevelId] = 2

\* C17: a level's stored best stars is overwritten only by a strictly greater
\* value: except in a step of Reset Game, no level's best stars, in the
\* progress state or in localStorage, becomes smaller.
C17_BestStarsNeverDecrease ==
  [][lastOp'.op # "resetGame" =>
       \A l \in LevelIds :
         /\ progress'.bestStars[l] >= progress.bestStars[l]
         /\ storage'[1].bestStars[l] >= storage[1].bestStars[l]
    ]_vars

\* C18: when a successful run improves the best stars of level L, L + 1 is in
\* the unlocked set afterwards if the catalog has a level L + 1, and the
\* unlocked set is left as it was if it has none; every id a run adds to the
\* unlocked set is the id of a level of the catalog.
C18_UnlocksNextCatalogLevel ==
  [][\A k \in 1..Len(runs) :
       (/\ RunStep(k)
        /\ runStatus' = "success"
        /\ progress'.bestStars[runs[k].level] > progress.bestStars[runs[k].level])
       => /\ LevelExists(runs[k].level + 1) =>
               Includes(progress'.unlockedLevels, runs[k].level + 1)
          /\ ~LevelExists(runs[k].level + 1) =>
               progress'.unlockedLevels = progress.unlockedLevels
          /\ \A j \in 1..Len(progress'.unlockedLevels) :
               \/ LevelExists(progress'.unlockedLevels[j])
               \/ Includes(progress.unlockedLevels, progress'.unlockedLevels[j])
          /\ storage' = << progress' >>
    ]_vars

\* the last level of the catalog was solved for the first time
C18_Witness ==
  /\ lastOp = Op("step", NullId, "end")
  /\ runStatus = "success"
  /\ ~LevelExists(currentLevelId + 1)
  /\ progress.bestStars[currentLevelId] > 0
  /\ progress.unlockedLevels = [k \in 1..Len(LEVELS) |-> k]
  /\ runs = << >>

\* C19: loadProgress returns the default record (level 1 unlocked, no stars)
\* when nothing is stored or the stored item is not the JSON of a progress
\* record, and no error leaves it: the mount effects complete and the page
\* starts on level 1 with the default progress.
NoReadableRecord(stored) == Len(stored) = 0 \/ ~IsProgressJson(stored[1])

C19_LoadFallsBackToDefault ==
  [][(Mount /\ NoReadableRecord(storage)) =>
       /\ loadProgress(storage).unlockedLevels = <<1>>
       /\ \A l \in LevelIds : loadProgress(storage).bestStars[l] = 0
       /\ progress'.unlockedLevels = <<1>>
       /\ progress'.bestStars = NoStars
       /\ currentLevelId' = 1
       /\ program' = initializeWorkspace
       /\ lastOp'.op = "mount"
    ]_vars

\* the page was mounted on an item whose parse threw
C19_Witness ==
  /\ lastOp = Op("mount", NullId, "caught")
  /\ progress.unlockedLevels = <<1>>
  /\ progress.bestStars = NoStars
  /\ currentLevelId = 1
  /\ storage = << progress >>

\* C20: relocating a block other than the entry marker that has blocks below
\* it moves the stack with it: after the drop the blocks met following
\* nextBlockId from the moved block are the same blocks in the same order.
C20_StackStaysLinked ==
  [][\A id \in Ids(program) :
       (/\ lastOp' = Op("relocate", id, "done")
        /\ BlockOf(program, id).type # "WHEN_RUN_CLICKED"
        /\ BlockOf(program, id).connection.nextBlockId # NullId)
       => NextWalk(program', id, Len(program')) = NextWalk(program, id, Len(program))
    ]_vars

(* helpers for the claims about one attach *)
\* the position handleDragEnd gives a palette drop whose rectangle is at d
\* relative to the workspace: { x: Math.max(0, dropX), y: Math.max(0, dropY) }
DropPoint(d) == Pos(Max0(d.x), Max0(d.y))

\* the array handleDragEnd hands to applySnapping for a palette drop
DropArray(t, d) ==
  Append(program, createBlockInstance(FreshId, t, DropPoint(d)))

\* index of the winning snap candidate when block m of `pre` is dropped at d
Winner(pre, m, d) == findSnapTarget(ClearConnections(pre, m), m, d)

WinnerBlock(pre, m, d) == ClearConnections(pre, m)[Winner(pre, m, d)]

AllTypes == {"POINT_UP", "POINT_RIGHT", "POINT_DOWN", "POINT_LEFT", "REPEAT",
             "MOVE_FORWARD"}

\* C21: when the winning snap candidate is neither a REPEAT nor a member of
\* a REPEAT's child list, the moved block is spliced into the chain directly
\* below it (prev = candidate, next = the candidate's former next, candidate's
\* next = moved, the former next's prev = moved) and is put in no child list.
C21_InsertionSplices ==
  [][LET Plain(pre, m, d) ==
           /\ BlockOf(pre, m).type # "WHEN_RUN_CLICKED"
           /\ Winner(pre, m, d) # 0
           /\ WinnerBlock(pre, m, d).type # "REPEAT"
           /\ ~isNestedInRepeat(ClearConnections(pre, m), WinnerBlock(pre, m, d).id)
         Spliced(pre, post, m, d) ==
           LET target == WinnerBlock(pre, m, d)
               oldNext == target.connection.nextBlockId
           IN /\ BlockOf(post, m).connection.prevBlockId = target.id
              /\ BlockOf(post, m).connection.nextBlockId = oldNext
              /\ BlockOf(post, target.id).connection.nextBlockId = m
              /\ (oldNext # NullId /\ HasBlock(post, oldNext)) =>
                   BlockOf(post, oldNext).connection.prevBlockId = m
              /\ ~isNestedInRepeat(post, m)
     IN
     /\ \A t \in AllTypes, d \in DropSet :
          (/\ HandlePaletteDrop(t, d)
           /\ Plain(DropArray(t, d), FreshId, DropPoint(d)))
            => Spliced(DropArray(t, d), program', FreshId, DropPoint(d))
     /\ \A id \in Ids(program), d \in DropSet :
          (HandleRelocate(id, d) /\ Plain(StackMoved(program, id, d), id, d))
            => Spliced(StackMoved(program, id, d), program', id, d)
    ]_vars

\* the moved block m is the last child of the winner, or of a REPEAT that
\* holds the winner, and hangs under the winner without a next; no other
\* block's next differs from what the clearing phase left
AppendedToRepeat(pre, post, m, d) ==
  LET clean == ClearConnections(pre, m)
      target == WinnerBlock(pre, m, d)
  IN /\ \E k \in 1..Len(post) :
          /\ post[k].type = "REPEAT"
          /\ \/ post[k].id = target.id
             \/ HasChild(clean[k].children, target.id)
          /\ Len(post[k].children) > 0
          /\ post[k].children[Len(post[k].children)].id = m
     /\ BlockOf(post, m).connection.prevBlockId = target.id
     /\ BlockOf(post, m).connection.nextBlockId = NullId
     /\ \A k \in 1..Len(post) :
          post[k].id # m =>
            post[k].connection.nextBlockId = clean[k].connection.nextBlockId

\* C22: when the winning snap candidate is a REPEAT, or is a member of a
\* REPEAT's child list, the moved block is appended to the end of that
\* REPEAT's child list with prev = candidate and next = null, and no block's
\* next changes.
C22_NestingAppends ==
  [][LET Nesting(pre, m, d) ==
           /\ BlockOf(pre, m).type # "WHEN_RUN_CLICKED"
           /\ Winner(pre, m, d) # 0
           /\ \/ WinnerBlock(pre, m, d).type = "REPEAT"
              \/ isNestedInRepeat(ClearConnections(pre, m),
                                  WinnerBlock(pre, m, d).id)
     IN
     /\ \A t \in AllTypes, d \in DropSet :
          (/\ HandlePaletteDrop(t, d)
           /\ Nesting(DropArray(t, d), FreshId, DropPoint(d)))
            => AppendedToRepeat(DropArray(t, d), program', FreshId, DropPoint(d))
     /\ \A id \in Ids(program), d \in DropSet :
          (HandleRelocate(id, d) /\ Nesting(StackMoved(program, id, d), id, d))
            => AppendedToRepeat(StackMoved(program, id, d), program', id, d)
    ]_vars

\* C23: the instruction sequence of a run is the expansion with the current
\* count and the current child list of every REPEAT, also of a REPEAT nested
\* in another REPEAT: it is what expandProgram gives when every block held
\* in a child list is read as the block of that id is in the program now.
C23_ExpansionIsCurrent ==
  [][LET RECURSIVE Current(_, _)
         Current(b, depth) ==
           LET now == IF HasBlock(program, b.id) THEN BlockOf(program, b.id) ELSE b
           IN [type |-> now.type, count |-> now.count,
               children |->
                 IF depth = 0 THEN << >>
                 ELSE [j \in 1..Len(now.children) |->
                         Current(now.children[j], depth - 1)]]
         chain == [k \in 1..Len(ChainBelowEntry) |->
                     Current(ChainBelowEntry[k], Len(program))]
     IN
     /\ lastOp' = Op("run", NullId, "done") =>
          runs'[Len(runs')].steps = expandProgram(chain)
     /\ lastOp' = Op("run", NullId, "end") => expandProgram(chain) = << >>
    ]_vars

\* C24: at most one execution of the runner is in its step loop at any time.
C24_OneStepLoop ==
  \A j, k \in 1..Len(runs) :
    (runs[j].pc = "loop" /\ runs[k].pc = "loop") => j = k

\* block m of the array has no link left: no block's next or prev is m, its
\* own next and prev are null, and no REPEAT of the array holds it as a child
Disconnected(blocks, m) ==
  /\ \A k \in 1..Len(blocks) :
       blocks[k].id # m =>
         /\ blocks[k].connection.nextBlockId # m
         /\ blocks[k].connection.prevBlockId # m
  /\ BlockOf(blocks, m).connection = NoConnection
  /\ ~isNestedInRepeat(blocks, m)

\* C25: after the clearing phase of a move of a block M other than the entry
\* marker, M is fully disconnected: no other block's next or prev refers to
\* M, M's own next and prev are null, and M is in no REPEAT's child list.
C25_ClearingDisconnects ==
  [][\A id \in Ids(program), d \in DropSet :
       (HandleRelocate(id, d) /\ BlockOf(program, id).type # "WHEN_RUN_CLICKED")
         => Disconnected(ClearConnections(StackMoved(program, id, d), id), id)
    ]_vars

\* the checkPosition of highlightedBlockId while block id is dragged.  A
\* block drawn by the workspace itself reports its position as it moves
\* (onDragPositionUpdate): where the drag started, and the drop positions.  A
\* block drawn inside a REPEAT is given no onDragPositionUpdate, and
\* dragPosition stays the stored position handleDragStart put there.
DragPositions(id) ==
  IF isNestedInRepeat(program, id)
  THEN {BlockOf(program, id).position}
  ELSE DropSet \cup {BlockOf(program, id).position}

\* C26: findSnapTarget never selects the moved block itself and never selects
\* a block that is below the moved block on its next chain, whatever the
\* program and the position: the block highlighted during a drag is never the
\* dragged block or one of the blocks of its stack.
C26_NoSnapToOwnStack ==
  \A id \in RenderedIds(program) :
    \A d \in DragPositions(id) :
      highlightedBlockId(id, d) \notin getStackBlocks(program, id, Len(program))

\* |dy| <= SNAP_VERTICAL_DISTANCE and |dx| <= SNAP_HORIZONTAL_TOLERANCE for
\* the position d and the candidate b
InSnapRange(b, d) ==
  /\ Abs(d.y - (b.position.y + BLOCK_HEIGHT)) <= SNAP_VERTICAL_DISTANCE
  /\ Abs(d.x - b.position.x) <= SNAP_HORIZONTAL_TOLERANCE

\* the winner for the new block m of `pre` dropped at d is in range, no
\* other block in range is nearer (by the Math.hypot of its offsets), none
\* before it in the array is as near; there is no winner only when no other
\* block is in range; and the new block hangs under the winner
NearestFirstWins(pre, post, m, d) ==
  LET w == Winner(pre, m, d)
      others == {k \in 1..Len(pre) : pre[k].id # m}
  IN /\ w # 0 =>
          /\ w \in others
          /\ InSnapRange(pre[w], d)
          /\ \A k \in others :
               InSnapRange(pre[k], d) =>
                 /\ CandidateDistance(pre, w, d) <= CandidateDistance(pre, k, d)
                 /\ CandidateDistance(pre, w, d) = CandidateDistance(pre, k, d)
                      => w <= k
          /\ BlockOf(post, m).connection.prevBlockId = pre[w].id
     /\ w = 0 =>
          /\ \A k \in others : ~InSnapRange(pre[k], d)
          /\ BlockOf(post, m).connection.prevBlockId = NullId

\* C27: findSnapTarget returns a candidate only when |dy| <=
\* SNAP_VERTICAL_DISTANCE and |dx| <= SNAP_HORIZONTAL_TOLERANCE, and among
\* the candidates in range the one of minimal distance hypot(dx, dy), the
\* first in the array when several are at the minimal distance.
C27_NearestCandidateWins ==
  [][\A d \in SnapDropSet :
       HandlePaletteDrop("MOVE_FORWARD", d)
         => NearestFirstWins(DropArray("MOVE_FORWARD", d), program', FreshId,
                             DropPoint(d))
    ]_vars

\* a block was dropped in the snap range of two roots: it hangs under the
\* second of the array, whose Math.hypot is the smaller
C27_Witness ==
  /\ lastOp = Op("drop", 4, "done")
  /\ Len(program) = 4
  /\ program[2].position = Pos(85, 55)
  /\ program[3].position = Pos(87, 51)
  /\ program[2].connection = NoConnection
  /\ program[3].connection.nextBlockId = 4
  /\ program[4].connection.prevBlockId = 3
  /\ program[4].position = Pos(87, 91)

\* block m is a disconnected root at d: its next and prev are null, no REPEAT
\* holds it as a child, and its position is d
RootAt(blocks, m, d) ==
  /\ BlockOf(blocks, m).connection = NoConnection
  /\ ~isNestedInRepeat(blocks, m)
  /\ BlockOf(blocks, m).position = d

\* C28: a drop with no eligible snap candidate leaves the dropped block (a
\* new block, or a relocated block other than the entry marker) a
\* disconnected root: next and prev null, in no child list, positioned at the
\* drop coordinate.
C28_NoTargetLeavesRoot ==
  [][/\ \A t \in AllTypes, d \in DropSet :
          (/\ HandlePaletteDrop(t, d)
           /\ Winner(DropArray(t, d), FreshId, DropPoint(d)) = 0)
            => RootAt(program', FreshId, d)
     /\ \A id \in Ids(program), d \in DropSet :
          (/\ HandleRelocate(id, d)
           /\ BlockOf(program, id).type # "WHEN_RUN_CLICKED"
           /\ Winner(StackMoved(program, id, d), id, d) = 0)
            => RootAt(program', id, d)
    ]_vars

\* the page while a player keeps editing during a run: every editing gesture
\* is available at every moment, the Run button starts one execution, and the
\* step loop of that execution advances between the gestures
NextBusy ==
  \/ \E t \in PaletteTypes : Len(program) < MaxBusyBlocks /\ HandleAddBlock(t)
  \/ \E t \in PaletteTypes, d \in RunDropSet :
       Len(program) < MaxBusyBlocks /\ HandlePaletteDrop(t, d)
  \/ \E id \in 1..MaxBusyBlocks, d \in RunDropSet : HandleRelocate(id, d)
  \/ \E id \in 1..MaxBusyBlocks, c \in CountChoices : HandleUpdateBlock(id, c)
  \/ HandleReset
  \/ Len(runs) = 0 /\ HandleRunProgram
  \/ RunStep(1)

SpecBusy == Init /\ [][NextBusy]_vars

\* C29: while runStatus is "running" no user gesture (palette click-add,
\* palette drop, relocation of a block, parameter update, workspace reset)
\* changes the program.
C29_NoEditWhileRunning ==
  [][(/\ runStatus = "running"
      /\ lastOp'.op \in {"add", "drop", "relocate", "update", "reset"})
       => program' = program]_vars

\* SpecLate: the player lays the blocks of the level's shortest solution one
\* under the other, before and during a run, presses Run at any moment when no
\* execution is suspended, and while one is suspended drags blocks (each with
\* the stack below it) out of the chain to DragAway, where nothing is in snap
\* range.
DragAway == Pos(200, 20)

NextLate ==
  \/ /\ Len(program) <= Len(SolutionTypes(currentLevelId, 0))
     /\ Len(program) < MaxLateBlocks
     /\ HandlePaletteDrop(SolutionTypes(currentLevelId, 0)[Len(program)],
                          EndOfChainDrop)
  \/ Len(runs) = 0 /\ HandleRunProgram
  \/ Len(runs) = 0 /\ HandleReset
  \/ \E id \in 2..MaxLateBlocks : Len(runs) > 0 /\ HandleRelocate(id, DragAway)
  \/ RunStep(1)
  \/ AutoAdvance(1)

SpecLate == Init /\ [][NextLate]_vars

\* the status handleRunProgram ends with when its loop is at iteration i of
\* `steps` at position pos with heading h: "crash" at the first move into a
\* wall or off the grid, otherwise the goal check on the final position
RECURSIVE Verdict(_, _, _, _, _)
Verdict(steps, i, pos, h, levelId) ==
  LET level == getLevelById(levelId)
  IN IF i >= Len(steps)
     THEN IF pos.x = level.goal.x /\ pos.y = level.goal.y
          THEN "success" ELSE "crash"
     ELSE LET out == StepOutcome(steps[i + 1], pos, h, level)
          IN IF out.crashed THEN "crash"
             ELSE Verdict(steps, i + 1, out.pos, out.heading, levelId)

RunVerdict(run) == Verdict(run.steps, run.i, run.pos, run.heading, run.level)

\* C30: a run executes the expansion of the program as it was when the run
\* started: the sequence is fixed at the start, no later step (an edit of the
\* program included) changes it or the status it leads to, an edit leaves the
\* execution where it was, and the run ends with the status that sequence
\* yields.
C30_RunKeepsItsSteps ==
  [][/\ (Len(runs) = 0 /\ Len(runs') = 1 /\ runs'[1].pc = "loop")
          => /\ runs'[1].steps = expandProgram(attachedBlocks(program))
             /\ runs'[1].i = 0
     /\ (/\ Len(runs) = 1 /\ runs[1].pc = "loop"
         /\ Len(runs') = 1 /\ runs'[1].pc = "loop")
          => /\ runs'[1].steps = runs[1].steps
             /\ RunVerdict(runs'[1]) = RunVerdict(runs[1])
             /\ program' # program => runs' = runs
     /\ (/\ Len(runs) = 1 /\ runs[1].pc = "loop"
         /\ (Len(runs') = 0 \/ runs'[1].pc = "advance"))
          => runStatus' = RunVerdict(runs[1])
    ]_vars

\* a run of the complete solution ended in success although blocks were
\* dragged out of the chain while it was in progress: the workspace no longer
\* expands to the solution
C30_Witness ==
  /\ lastOp = Op("step", NullId, "end")
  /\ runStatus = "success"
  /\ Len(runs) = 1
  /\ runs[1].steps = SolutionTypes(runs[1].level, 0)
  /\ expandProgram(attachedBlocks(program)) # runs[1].steps

\* C31: the automatic advance after a successful run on level L changes the
\* current level (to L + 1) only when the current level is still L and the
\* run status is still "success": it never overrides a workspace reset, a
\* game reset, a level selection or a new run made during its delay.
C31_AdvanceOnlyWhenStillCurrent ==
  [][\A k \in 1..Len(runs) :
       (AutoAdvance(k) /\ currentLevelId' # currentLevelId)
         => /\ currentLevelId = runs[k].level
            /\ runStatus = "success"
    ]_vars

\* C32: the transition into "running" sets the actor's position to the
\* level's start and the heading to the level's initialHeading, 90 when the
\* level has none, whatever the position and heading on display were.
C32_RunStartsFromLevelStart ==
  [][(runStatus # "running" /\ runStatus' = "running")
       => LET level == getLevelById(currentLevelId)
          IN /\ lastOp'.op = "run"
             /\ loopyPos' = level.start
             /\ heading' = IF level.initialHeading = NoHeading
                           THEN 90 ELSE level.initialHeading
    ]_vars

\* a run has just started on a level without initialHeading, on a page that
\* recorded a success on that level: the actor is back at the start, heading 90
C32_Witness ==
  /\ lastOp = Op("run", NullId, "done")
  /\ runStatus = "running"
  /\ getLevelById(currentLevelId).initialHeading = NoHeading
  /\ loopyPos = getLevelById(currentLevelId).start
  /\ heading = 90
  /\ progress.bestStars[currentLevelId] > 0

\* the instruction the next iteration of the k-th execution runs
NextStep(k) == runs[k].steps[runs[k].i + 1]

PointTypes == {"POINT_UP", "POINT_RIGHT", "POINT_DOWN", "POINT_LEFT"}

\* the heading a POINT_* instruction sets
PointHeading(step) ==
  CASE step = "POINT_UP" -> 0
    [] step = "POINT_RIGHT" -> 90
    [] step = "POINT_DOWN" -> 180
    [] step = "POINT_LEFT" -> 270

\* C33: a POINT_* step sets the heading to 0 / 90 / 180 / 270 and changes
\* nothing else: the actor does not move, the step never crashes, and the run
\* status stays what it was ("running" for the run in progress) unless the
\* step is the last one, in which case the status is the outcome of the goal
\* check on the unchanged position.
C33_TurnOnlyTurns ==
  [][\A k \in 1..Len(runs) :
       (RunStep(k) /\ NextStep(k) \in PointTypes)
         => LET run == runs[k]
                goal == getLevelById(run.level).goal
            IN /\ heading' = PointHeading(NextStep(k))
               /\ loopyPos' = loopyPos
               /\ program' = program
               /\ currentLevelId' = currentLevelId
               /\ lastOp'.result # "crash"
               /\ run.i + 1 < Len(run.steps)
                    => /\ runStatus' = runStatus
                       /\ progress' = progress
                       /\ storage' = storage
                       /\ runs'[k] = [run EXCEPT !.i = @ + 1,
                                                 !.heading = heading']
               /\ run.i + 1 = Len(run.steps)
                    => runStatus' = IF run.pos = goal THEN "success"
                                    ELSE "crash"
    ]_vars

\* a run ended in success on a POINT_* instruction: its last step turned the
\* actor on the goal cell
C33_Witness ==
  /\ lastOp = Op("step", NullId, "end")
  /\ runStatus = "success"
  /\ Len(runs) = 1
  /\ runs[1].steps[Len(runs[1].steps)] \in PointTypes
  /\ heading = PointHeading(runs[1].steps[Len(runs[1].steps)])
  /\ loopyPos = getLevelById(runs[1].level).goal

\* the blocks a run of `blocks` is scored on when the children of a REPEAT
\* count: the blocks of the entry chain and the children of its REPEAT blocks
ScoredIds(blocks) ==
  LET attached == attachedBlocks(blocks)
  IN {attached[k].id : k \in 1..Len(attached)}
       \cup UNION {{attached[k].children[j].id :
                      j \in 1..Len(attached[k].children)} :
                   k \in {n \in 1..Len(attached) : attached[n].type = "REPEAT"}}

\* C34: the children of a REPEAT attached to the entry chain each count
\* toward the usedCount a run is scored with, in addition to the REPEAT.
C34_ChildrenCountAsUsed ==
  [][(HandleRunProgram /\ lastOp'.result = "done")
       => runs'[Len(runs')].used = Cardinality(ScoredIds(program))
    ]_vars

\* The programs of a level by the number n of blocks attached below the entry
\* marker, which is what a run is scored on.  A pose is the currentPos and
\* currentHeading of the step loop.  The instruction sequence of a program is
\* a sequence of the palette's kinds other than REPEAT.  Without REPEAT in
\* the palette a program of n attached blocks is a chain of n instructions.
\* With REPEAT in the palette every instruction sequence of n - 1 or more
\* instructions is the expansion of a program of n attached blocks: its first
\* n - 1 instructions as blocks, closed by a REPEAT of count 1 whose children
\* are the others (the children are not on the next chain and are not
\* counted); and a sequence that ends on the goal still does with a POINT_*
\* instruction added at its end, so these are all the programs of n blocks
\* that matter.
SimpleTypes(level) ==
  {level.allowedBlocks[k] : k \in 1..Len(level.allowedBlocks)} \ {"REPEAT"}

StartPose(level) == [pos |-> level.start, heading |-> InitialHeading(level)]

\* the poses one more instruction leads to without a crash
StepPoses(level, poses) ==
  LET outs == {StepOutcome(t, s.pos, s.heading, level) :
                 s \in poses, t \in SimpleTypes(level)}
  IN {[pos |-> o.pos, heading |-> o.heading] : o \in {x \in outs : ~x.crashed}}

\* the poses the step loop can be in after n instructions of a chain
RECURSIVE Reach(_, _)
Reach(level, n) ==
  IF n = 0 THEN {StartPose(level)} ELSE StepPoses(level, Reach(level, n - 1))

\* some program of n attached blocks ends in success on the level
SucceedsWith(level, n) ==
  \/ \E s \in Reach(level, n) : s.pos = level.goal
  \/ /\ n >= 1
     /\ \E k \in 1..Len(level.allowedBlocks) : level.allowedBlocks[k] = "REPEAT"
     /\ \E len \in (n - 1)..MaxSteps :
          \E s \in Reach(level, len) : s.pos = level.goal

ThreeStarsAttainable(level) ==
  \E n \in 1..level.optimalBlockCount :
    /\ SucceedsWith(level, n)
    /\ calculateStars(n, level.optimalBlockCount) = 3

\* C35: the level being played, whichever of the catalog it is, has a program
\* built from its allowed blocks whose run ends in success with usedCount <=
\* optimalBlockCount, i.e. three stars are attainable.
C35_ThreeStarsAttainable ==
  ThreeStarsAttainable(getLevelById(currentLevelId))

\* handleUpdateBlock(id, { count }) called with any id, that of a block of
\* any kind or of no block
UpdateParameter(id, count) ==
  /\ IF runStatus = "running"
     THEN /\ program' = program
          /\ lastOp' = Op("update", id, "ignored")
     ELSE /\ program' = UpdateCount(program, id, count)
          /\ lastOp' = Op("update", id, "done")
  /\ RunFrame

\* SpecPatch: the player drops palette blocks, resets and runs, and
\* handleUpdateBlock is called with a count patch for every id, known or not
NextPatch ==
  \/ \E t \in PaletteTypes, d \in RunDropSet :
       Len(program) < MaxPatchBlocks /\ HandlePaletteDrop(t, d)
  \/ \E id \in 0..(MaxPatchBlocks + 1), c \in CountChoices :
       UpdateParameter(id, c)
  \/ HandleReset
  \/ Len(runs) = 0 /\ HandleRunProgram
  \/ RunStep(1)

SpecPatch == Init /\ [][NextPatch]_vars

\* C36: handleUpdateBlock leaves the whole program unchanged when the id is
\* that of no block, or of a block whose kind takes no count (any kind but
\* REPEAT).
C36_BadPatchIsNoOp ==
  [][\A id \in 0..(MaxPatchBlocks + 1), c \in CountChoices :
       (/\ UpdateParameter(id, c)
        /\ \/ ~HasBlock(program, id)
           \/ BlockOf(program, id).type # "REPEAT")
         => program' = program
    ]_vars

\* every block of `post` is the block of `pre` at the same index with, at
\* most, another position
OnlyPositionsDiffer(pre, post) ==
  /\ Len(post) = Len(pre)
  /\ \A k \in 1..Len(pre) : post[k] = [pre[k] EXCEPT !.position = post[k].position]

\* C37: a move of the entry marker attaches it to nothing and changes no
\* connection: every block's next and prev and every REPEAT's child list are
\* the same after the move; only positions change, the marker's to the drop
\* coordinate.
C37_EntryMoveKeepsLinks ==
  [][\A id \in Ids(program), d \in DropSet :
       (HandleRelocate(id, d) /\ BlockOf(program, id).type = "WHEN_RUN_CLICKED")
         => /\ OnlyPositionsDiffer(program, program')
            /\ BlockOf(program', id).position = d
    ]_vars

\* the entry marker was dropped in the snap zone of another block, with a
\* block linked below it and a REPEAT holding a child in the workspace
C37_Witness ==
  /\ lastOp.op = "relocate"
  /\ HasBlock(program, lastOp.id)
  /\ BlockOf(program, lastOp.id).type = "WHEN_RUN_CLICKED"
  /\ BlockOf(program, lastOp.id).connection.nextBlockId # NullId
  /\ BlockOf(program, lastOp.id).position # Pos(20, 20)
  /\ \E k \in 1..Len(program) :
       /\ program[k].id # lastOp.id
       /\ InSnapZone(program[k], BlockOf(program, lastOp.id).position)
  /\ \E k \in 1..Len(program) :
       program[k].type = "REPEAT" /\ Len(program[k].children) > 0

\* the unlocked set and the best-star mapping of a Progress
Earned(p) == [unlockedLevels |-> p.unlockedLevels, bestStars |-> p.bestStars]

\* C38: the unlocked set and the best stars of the progress record, in the
\* page state and in localStorage, change only when a run ends in success or
\* on Reset Game: a run that ends in crash, an ignored run request, an edit
\* of the workspace, a level change and the automatic advance leave them as
\* they are.
C38_ProgressChangesOnSuccessOnly ==
  [][(\/ Earned(progress') # Earned(progress)
      \/ /\ Len(storage) = 1 /\ Len(storage') = 1
         /\ Earned(storage'[1]) # Earned(storage[1]))
       => \/ lastOp'.op = "resetGame"
          \/ /\ lastOp'.op \in {"run", "step"}
             /\ lastOp'.result = "end"
             /\ runStatus' = "success"
    ]_vars

\* a run has just ended in crash on a page whose record holds stars and an
\* unlocked second level: the record in the page and in localStorage is the
\* one loaded
C38_Witness ==
  /\ lastOp = Op("step", NullId, "crash")
  /\ runStatus = "crash"
  /\ progress.unlockedLevels = << 1, 2 >>
  /\ progress.bestStars[1] = 3
  /\ Len(storage) = 1
  /\ Earned(storage[1]) = Earned(progress)

====
